---------------------------- MODULE Spec2Model ----------------------------
(***************************************************************************)
(* SilverVille session / progression engine.                               *)
(*                                                                         *)
(* Three parts of the client are modelled, each with its own               *)
(* specification over the same variables:                                  *)
(*   SpecQuizBank   PedometerService.getRandomQuiz / resetDaily            *)
(*   SpecTabsWalk   app/(tabs)/walk.tsx driven by PedometerService and     *)
(*                  the gameStore ledger                                   *)
(*   SpecWalkScreen src/screens/WalkScreen.tsx (usePedometer hook, app     *)
(*                  store, healthService.completeWalk)                     *)
(*   SpecGameStore  src/store/gameStore.ts, every action of the store      *)
(*   SpecLevelEngine calcVillageLevel of gameStore.ts on drawn inputs      *)
(*   SpecTabsCafe   app/(tabs)/cafe.tsx (expo-speech, timers, gameStore)   *)
(*   SpecWalkQuiz   the quiz card of app/(tabs)/walk.tsx: the walk tab's   *)
(*                  actions with selectAnswer, its close timer and the     *)
(*                  test trigger                                           *)
(* Variables a specification does not use keep their initial value.        *)
(***************************************************************************)
EXTENDS Integers, Sequences, FiniteSets, TLC

\* ------------------------------------------------------------------------
\* Program constants
\* ------------------------------------------------------------------------

\* pedometerService.ts: steps between two quiz triggers
QUIZ_INTERVAL == 1000

\* pedometerService.ts: steps at which the landscape item is earned
REWARD_MILESTONE == 5000

\* ids of FALLBACK_QUIZZES, in catalog order
FALLBACK_QUIZZES == <<"q1", "q2", "q3", "q4", "q5", "q6", "q7", "q8">>

QuizIds == {FALLBACK_QUIZZES[i] : i \in 1..Len(FALLBACK_QUIZZES)}

CatalogSize == Len(FALLBACK_QUIZZES)

\* ------------------------------------------------------------------------
\* Bounds of the model
\* ------------------------------------------------------------------------

\* sensor readings delivered to PedometerService go up to
\* MaxThousands * QUIZ_INTERVAL + 600
MaxThousands == 5

\* walk sessions started on the walk tab
MaxSessions == 2

\* getRandomQuiz calls counted since the last resetDaily
MaxDraws == 11

\* offsets inside a 1000-step interval at which a tick is delivered
TickOffsets == {0, 600}

\* step counts a tick can carry (in any order: a tick can be repeated or stale)
TickSteps == {k * QUIZ_INTERVAL + r : k \in 0..MaxThousands, r \in TickOffsets}

\* handleStartWalk calls made on WalkScreen
MaxWalkSessions == 2

\* handleWalkComplete calls in flight at once
MaxInFlight == 2

\* cumulative readings the usePedometer hook can deliver after its initial 0
Readings == {300, 500, 1000, 5000, 5500}

\* index of the answer in the choices of a quiz fetched by getWalkQuiz
RemoteAnswers == {0}

\* gameStore actions applied in one run
MaxStoreOps == 4

\* cafe sessions started on the cafe tab
MaxCafeSessions == 2

Min(a, b) == IF a <= b THEN a ELSE b

Max(a, b) == IF a >= b THEN a ELSE b

\* ------------------------------------------------------------------------
\* State
\* ------------------------------------------------------------------------
VARIABLES
    \* PedometerService (singleton)
    subscription,       \* TRUE while a watchStepCount subscription is held
    currentSteps,
    lastQuizMilestone,
    usedQuizIds,
    \* app/(tabs)/walk.tsx component state
    pedometerStatus,    \* {} for null, else {status record}
    isTracking,
    quizState,          \* [phase, quiz]
    rewardGivenRef,
    closeTimers,        \* pending 3 s timeouts set by selectAnswer (a count)
    quizFadeOut,        \* TRUE while the card's fade-out animation runs
    \* gameStore ledger
    steps,
    landscapeItems,
    \* history of the walk-tab session (not program state)
    sessionCount,       \* sessions started so far
    sessionGrants,      \* addLandscapeItems(1) applied in the current session
    sessionMaxSteps,    \* highest step count of a tick in the session, -1 if none
    tickRepeated,       \* TRUE iff the latest tick repeated the step count before it
    firedLog,           \* milestones passed to quizCallback in the session
    \* history of the quiz bank (not program state)
    drawCount,          \* getRandomQuiz calls since Init / resetDaily
    firstDraws,         \* ids returned by the first CatalogSize of those calls
    cycleDispensed,     \* ids returned since usedQuizIds was last cleared
    cycleRepeat,        \* TRUE once an id was returned twice in one cycle
    lastQuiz,           \* sequence holding the latest returned id
    prevQuiz,           \* sequence holding the id returned before that
    lastWasWrap,        \* TRUE iff the latest call cleared usedQuizIds
    \* src/screens/WalkScreen.tsx component state (Null is <<>>, a value v is <<v>>)
    hookSteps,          \* usePedometer().steps
    phase,
    sessionSteps,
    startSteps,
    quizList,
    currentQuizIdx,
    selectedChoice,
    lastQuizCorrect,
    \* app store
    playerLandscapeItems,   \* player.landscapeItems
    missionWalkSteps,       \* mission.walkSteps
    \* callbacks of WalkScreen still to run
    starting,           \* handleStartWalk calls awaiting a remote reply
    completing,         \* handleWalkComplete calls awaiting completeWalk
    resultTimers,       \* pending 2.5 s result timeouts (a count)
    \* history of the WalkScreen session (not program state)
    wsSession,          \* sessions started so far
    wsOpen,             \* TRUE from a session start to the return to idle
    wsGrants,           \* times the open session raised player.landscapeItems
    lastGrantSteps,     \* finalSteps of the latest call that raised it
    lastShown,          \* session steps at the latest quiz of the session
    boundaryRepeated,   \* TRUE once a quiz was shown again for the same steps
    completeLeft,       \* TRUE once a render in complete was followed by a render
                        \* in walking, quiz or result
    \* gameStore ledger, the fields besides steps and landscapeItems
    quizHistory,
    dietScore,          \* in tenths of a point (0..100 for 0.0..10.0)
    lastAnalyzedFoods,
    villageLevel,
    villageExp,
    residents,          \* sequence of resident ids
    buildings,          \* sequence of buildings { id, name }
    fertilizer,
    cafeScore,
    cafeStreak,
    streakDays,
    \* history of the gameStore (not program state)
    storeOps,           \* store actions applied so far
    lastStoreOp,        \* name of the latest store action
    lastClamped,        \* TRUE iff it was a useFertilizer(n) with n > fertilizer,
                        \* or an unlockBuilding of an id already present
    \* calcVillageLevel applied to drawn inputs
    levelInputs,        \* the pair of experience values drawn
    levelOutputs,       \* <<>> until computed, then the pair of levels
    \* app/(tabs)/cafe.tsx component state
    cafePhase,
    currentRound,
    rounds,
    selectedId,
    sessionCorrect,
    showDistractor,
    isSpeakingRef,
    \* callbacks of the cafe tab still to run
    utterance,          \* what expo-speech is speaking: none, order, distractor, feedback
    fadeOut,            \* TRUE while the overlay's fade-out animation runs
    feedbackTimers,     \* pending 1.8 s timeouts with the values they closed over
    \* history of the cafe session (not program state)
    cafeSessions,       \* sessions started so far
    roundAnswers,       \* correctness of each scored selection of the session
    expGrants,          \* amounts passed to addVillageExp in the session
    cafeLast,           \* name of the latest event of the cafe tab
    \* history of the walk tab's quiz card (not program state)
    lastRefused,        \* quizState at the latest refused selectAnswer, Null if none
    \* history of the walk tab's start button (not program state)
    startRefused,       \* TRUE iff startTracking returned at its check of the
                        \* status held
    \* src/screens DietScreen (unnamed/part_007)
    dsPhase,            \* 'camera' | 'preview' | 'analyzing' | 'result' | 'done'
    dsResult,           \* Null or <<DietAnalysisResult>>
    dsPending,          \* TRUE while analyzeFood has not settled
    \* src/screens/CafeScreen.tsx
    csPhase,            \* CafePhase
    csRound,
    csSession,          \* currentSession: Null or <<MockSession>>
    csSelectedMenuId,   \* Null or <<menu id>>
    csLoading,          \* round indices of the getBaristaSession calls not settled
    csTimers,           \* the 2.5 s timeouts of handleSelectMenu: the round captured
    csSpeech,           \* utterance whose callback is to come: none, order, distractor
    csGames,            \* handleStart calls so far (history)
    \* app/(tabs)/diet.tsx
    dtPhase,            \* 'camera' | 'capturing' | 'analyzing' | 'result'
    dtResult,           \* Null or <<AnalysisResult>>
    dtPending,          \* what takePicture awaits: none, capture, analysis
    dtAnalyses,         \* analyses completed (history)
    dtCaptures,         \* captures that failed (history)
    dtRefused,          \* phase at the latest refused takePicture, Null if none
    dtLast,             \* name of the latest event of the diet tab (history)
    \* a pure function applied to drawn arguments
    callArgs,           \* <<function name, arguments...>>
    callResult          \* <<>> until computed, then <<results...>>

serviceVars == <<subscription, currentSteps, lastQuizMilestone>>

bankVars == <<usedQuizIds>>

walkTabVars == <<pedometerStatus, isTracking, quizState, rewardGivenRef, closeTimers,
                 quizFadeOut>>

ledgerVars == <<steps, landscapeItems>>

walkTabHist == <<sessionCount, sessionGrants, sessionMaxSteps, tickRepeated, firedLog>>

bankHist == <<drawCount, firstDraws, cycleDispensed, cycleRepeat, lastQuiz,
              prevQuiz, lastWasWrap>>

screenVars == <<hookSteps, phase, sessionSteps, startSteps, quizList, currentQuizIdx,
                selectedChoice, lastQuizCorrect, playerLandscapeItems,
                missionWalkSteps, starting, completing, resultTimers>>

screenHist == <<wsSession, wsOpen, wsGrants, lastGrantSteps, lastShown,
                boundaryRepeated, completeLeft>>

storeVars == <<quizHistory, dietScore, lastAnalyzedFoods, villageLevel, villageExp,
               residents, buildings, fertilizer, cafeScore, cafeStreak, streakDays>>

storeHist == <<storeOps, lastStoreOp, lastClamped>>

levelVars == <<levelInputs, levelOutputs>>

cafeVars == <<cafePhase, currentRound, rounds, selectedId, sessionCorrect,
              showDistractor, isSpeakingRef, utterance, fadeOut, feedbackTimers>>

cafeHist == <<cafeSessions, roundAnswers, expGrants, cafeLast>>

quizCardHist == <<lastRefused>>

callVars == <<callArgs, callResult>>

startHist == <<startRefused>>

dietScreenVars == <<dsPhase, dsResult, dsPending>>

cafeScreenVars == <<csPhase, csRound, csSession, csSelectedMenuId, csLoading, csTimers,
                    csSpeech, csGames>>

dietTabVars == <<dtPhase, dtResult, dtPending>>

dietTabHist == <<dtAnalyses, dtCaptures, dtRefused, dtLast>>

\* the screens with remote calls, and the diet tab
remoteVars == <<dietScreenVars, cafeScreenVars, dietTabVars, dietTabHist>>

\* what was modelled after the cafe tab
laterVars == <<quizCardHist, startHist, remoteVars, callVars>>

\* the store outside the walk ledger, and everything modelled after it
moreVars == <<storeVars, storeHist, levelVars, cafeVars, cafeHist, laterVars>>

vars == <<serviceVars, bankVars, walkTabVars, ledgerVars, walkTabHist, bankHist,
          screenVars, screenHist, moreVars>>

\* ------------------------------------------------------------------------
\* PedometerService: pure parts
\* ------------------------------------------------------------------------

\* Math.floor(steps / QUIZ_INTERVAL) * QUIZ_INTERVAL, rounding up instead
CurrentMilestoneCeil(s) == ((s + QUIZ_INTERVAL - 1) \div QUIZ_INTERVAL) * QUIZ_INTERVAL

\* Math.floor(steps / QUIZ_INTERVAL) * QUIZ_INTERVAL
CurrentMilestone(s) == (s \div QUIZ_INTERVAL) * QUIZ_INTERVAL

\* the trigger test with >= in place of >
QuizTriggerAtOrAbove(s, last) == CurrentMilestone(s) >= last /\ CurrentMilestone(s) > 0

\* quizTrigger = currentMilestone > lastQuizMilestone && currentMilestone > 0
QuizTrigger(s, last) == CurrentMilestone(s) > last /\ CurrentMilestone(s) > 0

\* steps >= REWARD_MILESTONE
GoalReached(s) == s >= REWARD_MILESTONE

\* FALLBACK_QUIZZES.filter(q => !usedQuizIds.has(q.id)), without the filter
AvailableUnfiltered(used) == FALLBACK_QUIZZES

\* FALLBACK_QUIZZES.filter(q => !usedQuizIds.has(q.id))
Available(used) ==
    LET NotUsed(q) == q \notin used
    IN  SelectSeq(FALLBACK_QUIZZES, NotUsed)

\* Math.random() yields r / CatalogSize for a numerator r of Randoms
Randoms == 0..(CatalogSize - 1)

\* Math.floor(Math.random() * n)
RandomIndex(r, n) == (r * n) \div CatalogSize

\* getRandomQuiz indexing past the end of the catalog when nothing is available
QuizReturnedPastEnd(used, r) ==
    IF Len(Available(used)) = 0
    THEN "undefined"
    ELSE Available(used)[RandomIndex(r, Len(Available(used))) + 1]

\* the quiz getRandomQuiz returns from `used` when Math.random() yields r
QuizReturned(used, r) ==
    IF Len(Available(used)) = 0
    THEN FALLBACK_QUIZZES[1]
    ELSE Available(used)[RandomIndex(r, Len(Available(used))) + 1]

\* usedQuizIds after that call
UsedAfter(used, r) ==
    IF Len(Available(used)) = 0 THEN {} ELSE used \cup {QuizReturned(used, r)}


\* ------------------------------------------------------------------------
\* Initial state
\* ------------------------------------------------------------------------

\* QuizState { phase: 'idle' }
IdleQuiz == [phase |-> "idle", quiz |-> "none"]

\* QuizState { phase: 'playing', quiz }
PlayingQuiz(q) == [phase |-> "playing", quiz |-> q]

InitService ==
    /\ subscription = FALSE
    /\ currentSteps = 0
    /\ lastQuizMilestone = 0

InitBank == usedQuizIds = {}

InitWalkTab ==
    /\ pedometerStatus = {}
    /\ isTracking = FALSE
    /\ quizState = IdleQuiz
    /\ rewardGivenRef = FALSE
    /\ closeTimers = 0
    /\ quizFadeOut = FALSE

InitLedger ==
    /\ steps = 0
    /\ landscapeItems = 0

InitWalkTabHist ==
    /\ sessionCount = 0
    /\ sessionGrants = 0
    /\ sessionMaxSteps = -1
    /\ tickRepeated = FALSE
    /\ firedLog = <<>>

InitBankHist ==
    /\ drawCount = 0
    /\ firstDraws = {}
    /\ cycleDispensed = {}
    /\ cycleRepeat = FALSE
    /\ lastQuiz = <<>>
    /\ prevQuiz = <<>>
    /\ lastWasWrap = FALSE

Null == <<>>

InitScreen ==
    /\ hookSteps = 0
    /\ phase = "idle"
    /\ sessionSteps = 0
    /\ startSteps = 0
    /\ quizList = <<>>
    /\ currentQuizIdx = 0
    /\ selectedChoice = Null
    /\ lastQuizCorrect = Null
    /\ playerLandscapeItems = 0
    /\ missionWalkSteps = 0
    /\ starting = <<>>
    /\ completing = <<>>
    /\ resultTimers = 0

InitScreenHist ==
    /\ wsSession = 0
    /\ wsOpen = FALSE
    /\ wsGrants = 0
    /\ lastGrantSteps = Null
    /\ lastShown = Null
    /\ boundaryRepeated = FALSE
    /\ completeLeft = FALSE

\* useGameStore initial state, the fields besides steps and landscapeItems
InitStore ==
    /\ quizHistory = <<>>
    /\ dietScore = 0
    /\ lastAnalyzedFoods = <<>>
    /\ villageLevel = 1
    /\ villageExp = 0
    /\ residents = <<>>
    /\ buildings = <<>>
    /\ fertilizer = 0
    /\ cafeScore = 0
    /\ cafeStreak = 0
    /\ streakDays = 0

InitStoreHist ==
    /\ storeOps = 0
    /\ lastStoreOp = "none"
    /\ lastClamped = FALSE

InitCafe ==
    /\ cafePhase = "ready"
    /\ currentRound = 0
    /\ rounds = <<>>
    /\ selectedId = Null
    /\ sessionCorrect = 0
    /\ showDistractor = FALSE
    /\ isSpeakingRef = FALSE
    /\ utterance = "none"
    /\ fadeOut = FALSE
    /\ feedbackTimers = <<>>

InitCafeHist ==
    /\ cafeSessions = 0
    /\ roundAnswers = <<>>
    /\ expGrants = <<>>
    /\ cafeLast = "none"

\* the program before anything ran, calcVillageLevel's inputs left aside
InitProgram ==
    /\ InitService
    /\ InitBank
    /\ InitWalkTab
    /\ InitLedger
    /\ InitWalkTabHist
    /\ InitBankHist
    /\ InitScreen
    /\ InitScreenHist
    /\ InitStore
    /\ InitStoreHist
    /\ InitCafe
    /\ InitCafeHist
    /\ lastRefused = <<>>
    /\ startRefused = FALSE
    /\ dsPhase = "camera"
    /\ dsResult = <<>>
    /\ dsPending = FALSE
    /\ csPhase = "idle"
    /\ csRound = 0
    /\ csSession = <<>>
    /\ csSelectedMenuId = <<>>
    /\ csLoading = <<>>
    /\ csTimers = <<>>
    /\ csSpeech = "none"
    /\ csGames = 0
    /\ dtPhase = "camera"
    /\ dtResult = <<>>
    /\ dtPending = "none"
    /\ dtAnalyses = 0
    /\ dtCaptures = 0
    /\ dtRefused = <<>>
    /\ dtLast = "none"

\* no pure function is being applied
NoCall ==
    /\ callArgs = <<>>
    /\ callResult = <<>>

Init ==
    /\ InitProgram
    /\ levelInputs = <<0, 0>>
    /\ levelOutputs = <<>>
    /\ NoCall

\* ------------------------------------------------------------------------
\* Quiz bank: PedometerService.getRandomQuiz and resetDaily
\* ------------------------------------------------------------------------

\* getRandomQuiz() called on its own, Math.random() yielding r
GetRandomQuiz(r) ==
    /\ drawCount < MaxDraws
    /\ usedQuizIds' = UsedAfter(usedQuizIds, r)
    /\ drawCount' = drawCount + 1
    /\ LET q == QuizReturned(usedQuizIds, r)
           wrap == Len(Available(usedQuizIds)) = 0
       IN  /\ firstDraws' = IF drawCount < CatalogSize
                            THEN firstDraws \cup {q} ELSE firstDraws
           /\ lastWasWrap' = wrap
           /\ cycleDispensed' = IF wrap THEN {q} ELSE cycleDispensed \cup {q}
           /\ cycleRepeat' = (cycleRepeat \/ (~wrap /\ q \in cycleDispensed))
           /\ lastQuiz' = <<q>>
    /\ prevQuiz' = lastQuiz
    /\ UNCHANGED <<serviceVars, walkTabVars, ledgerVars, walkTabHist, screenVars,
                   screenHist, moreVars>>

\* resetDaily()
ResetDaily ==
    /\ currentSteps' = 0
    /\ lastQuizMilestone' = 0
    /\ usedQuizIds' = {}
    /\ drawCount' = 0
    /\ firstDraws' = {}
    /\ cycleDispensed' = {}
    /\ cycleRepeat' = FALSE
    /\ lastQuiz' = <<>>
    /\ prevQuiz' = <<>>
    /\ lastWasWrap' = FALSE
    /\ UNCHANGED <<subscription, walkTabVars, ledgerVars, walkTabHist, screenVars,
                   screenHist, moreVars>>

NextQuizBank ==
    \/ \E r \in Randoms : GetRandomQuiz(r)
    \/ ResetDaily

SpecQuizBank == Init /\ [][NextQuizBank]_vars


\* ------------------------------------------------------------------------
\* app/(tabs)/walk.tsx driven by PedometerService
\* ------------------------------------------------------------------------

\* outcomes of Math.random() on the walk tab: 0 and 0.5
WalkRandoms == {0, CatalogSize \div 2}

\* PedometerStatus values initialize() can return
StatusAvailable == [isAvailable |-> TRUE, hasPermission |-> TRUE, error |-> "null"]

StatusDenied == [isAvailable |-> FALSE, hasPermission |-> FALSE, error |-> "denied"]

StatusUnsupported == [isAvailable |-> FALSE, hasPermission |-> TRUE, error |-> "unsupported"]

StatusThrown == [isAvailable |-> FALSE, hasPermission |-> FALSE, error |-> "thrown"]

\* what Pedometer.requestPermissionsAsync() and Pedometer.isAvailableAsync() do
PermissionOutcomes == {"granted", "denied", "throws"}

AvailabilityOutcomes == {"available", "unavailable", "throws"}

\* initialize(): the status returned, by the outcomes of the two sensor calls
initialize(permission, availability) ==
    IF permission = "throws" THEN StatusThrown
    ELSE IF permission = "denied" THEN StatusDenied
    ELSE IF availability = "throws" THEN StatusThrown
    ELSE IF availability = "available" THEN StatusAvailable
    ELSE StatusUnsupported

InitializeResults ==
    {initialize(p, a) : p \in PermissionOutcomes, a \in AvailabilityOutcomes}

\* mount effect: status = await pedometerService.initialize(); setPedometerStatus(status)
Initialize(st) ==
    /\ pedometerStatus = {}
    /\ pedometerStatus' = {st}
    /\ startRefused' = FALSE
    /\ UNCHANGED <<serviceVars, bankVars, isTracking, quizState, rewardGivenRef,
                   closeTimers, quizFadeOut, ledgerVars, walkTabHist, bankHist,
                   screenVars, screenHist, storeVars, storeHist, levelVars, cafeVars,
                   cafeHist, quizCardHist, remoteVars, callVars>>

\* "if (!pedometerStatus?.isAvailable) return", without the check
StartAllowedUnchecked(status) == TRUE

\* "if (!pedometerStatus?.isAvailable) return", negated; status is the empty
\* set while initialize() has not resolved
StartAllowed(status) == \E st \in status : st.isAvailable

\* the start button (shown while !isTracking): startTracking()
StartTracking ==
    /\ ~isTracking
    /\ IF StartAllowed(pedometerStatus)
       THEN /\ sessionCount < MaxSessions
            /\ isTracking' = TRUE
            /\ rewardGivenRef' = FALSE
            \* pedometerService.startTracking: stopTracking(), callbacks,
            \* watchStepCount
            /\ subscription' = TRUE
            /\ sessionCount' = sessionCount + 1
            /\ sessionGrants' = 0
            /\ sessionMaxSteps' = -1
            /\ tickRepeated' = FALSE
            /\ firedLog' = <<>>
            /\ UNCHANGED <<currentSteps, lastQuizMilestone, bankVars, pedometerStatus,
                           quizState, closeTimers, quizFadeOut, ledgerVars, bankHist,
                           screenVars, screenHist, moreVars>>
       ELSE /\ startRefused' = TRUE
            /\ UNCHANGED <<serviceVars, bankVars, walkTabVars, ledgerVars,
                           walkTabHist, bankHist, screenVars, screenHist, storeVars,
                           storeHist, levelVars, cafeVars, cafeHist, quizCardHist,
                           remoteVars, callVars>>

\* the stop button (shown while isTracking): stopTracking()
StopTracking ==
    /\ isTracking
    /\ subscription' = FALSE
    /\ isTracking' = FALSE
    /\ quizState' = IdleQuiz
    /\ UNCHANGED <<currentSteps, lastQuizMilestone, bankVars, pedometerStatus,
                   rewardGivenRef, closeTimers, quizFadeOut, ledgerVars, walkTabHist,
                   bankHist, screenVars, screenHist, moreVars>>

\* the reward test of the step callback: goalReached && !rewardGivenRef.current,
\* without the flag
RewardDueUnguarded(goalReached, given) == goalReached

\* the reward test of the step callback: goalReached && !rewardGivenRef.current
RewardDue(goalReached, given) == goalReached /\ ~given

\* triggerQuiz(milestone), Math.random() yielding r: getRandomQuiz(),
\* setQuizState playing, and the card's fade-in; starting the fade-in ends a
\* fade-out still running, whose callback then sets the quiz state to idle
TriggerQuiz(r) ==
    /\ usedQuizIds' = UsedAfter(usedQuizIds, r)
    /\ quizState' = IF quizFadeOut THEN IdleQuiz
                    ELSE PlayingQuiz(QuizReturned(usedQuizIds, r))
    /\ quizFadeOut' = FALSE

\* watchStepCount delivers result.steps = s: currentSteps = s; _handleStepUpdate(s),
\* which calls quizCallback (triggerQuiz) and then stepCallback
SensorTick(s, r) ==
    /\ subscription
    /\ currentSteps' = s
    /\ IF QuizTrigger(s, lastQuizMilestone)
       THEN /\ lastQuizMilestone' = CurrentMilestone(s)
            /\ TriggerQuiz(r)
            /\ firedLog' = Append(firedLog, CurrentMilestone(s))
       ELSE UNCHANGED <<lastQuizMilestone, usedQuizIds, quizState, quizFadeOut,
                        firedLog>>
    \* stepCallback: setSteps(newSteps), then the goal reward
    /\ steps' = s
    /\ IF RewardDue(GoalReached(s), rewardGivenRef)
       THEN /\ rewardGivenRef' = TRUE
            /\ landscapeItems' = landscapeItems + 1
            /\ sessionGrants' = sessionGrants + 1
       ELSE UNCHANGED <<rewardGivenRef, landscapeItems, sessionGrants>>
    /\ sessionMaxSteps' = Max(sessionMaxSteps, s)
    /\ tickRepeated' = (sessionMaxSteps # -1 /\ s = currentSteps)
    /\ UNCHANGED <<subscription, pedometerStatus, isTracking, closeTimers,
                   sessionCount, bankHist, screenVars, screenHist, moreVars>>

NextTabsWalk ==
    \/ \E st \in InitializeResults : Initialize(st)
    \/ StartTracking
    \/ StopTracking
    \/ \E s \in TickSteps, r \in WalkRandoms : SensorTick(s, r)

SpecTabsWalk == Init /\ [][NextTabsWalk]_vars


\* ------------------------------------------------------------------------
\* src/screens/WalkScreen.tsx
\* ------------------------------------------------------------------------

\* mission.walkGoal of the app store, read as STEP_GOAL
STEP_GOAL == 5000

\* a quiz is due every QUIZ_EVERY session steps
QUIZ_EVERY == 500

\* MOCK_QUIZZES: id and the index of the answer among the choices
MOCK_QUIZZES ==
    << [id |-> "q1", answer |-> 0], [id |-> "q2", answer |-> 1],
       [id |-> "q3", answer |-> 1], [id |-> "q4", answer |-> 2] >>

\* a quiz returned by getWalkQuiz
RemoteQuiz(a) == [id |-> "remote", answer |-> a]

\* indices of the four choices of a quiz
Choices == 0..3

\* calcLandscapeItems with exclusive lower bounds
calcLandscapeItemsAbove(n) ==
    IF n > 10000 THEN 3
    ELSE IF n > 7000 THEN 2
    ELSE IF n > 5000 THEN 1
    ELSE 0

\* calcLandscapeItems(steps)
calcLandscapeItems(n) ==
    IF n >= 10000 THEN 3
    ELSE IF n >= 7000 THEN 2
    ELSE IF n >= 5000 THEN 1
    ELSE 0

\* what a render of WalkScreen reads and its effects write
World ==
    [ steps |-> hookSteps, phase |-> phase, sessionSteps |-> sessionSteps,
      startSteps |-> startSteps, quizList |-> quizList,
      currentQuizIdx |-> currentQuizIdx, selectedChoice |-> selectedChoice,
      lastQuizCorrect |-> lastQuizCorrect,
      landscapeItems |-> playerLandscapeItems, walkSteps |-> missionWalkSteps,
      completing |-> completing, session |-> wsSession,
      lastShown |-> lastShown, boundaryRepeated |-> boundaryRepeated,
      completeLeft |-> completeLeft ]

\* handleWalkComplete(finalSteps) up to its await: setPhase('complete') and the
\* call of completeWalk, with player.landscapeItems as the render captured it
HandleWalkComplete(w, finalSteps, base) ==
    [w EXCEPT !.phase = "complete",
              !.completing = Append(@, [finalSteps |-> finalSteps, base |-> base,
                                        session |-> w.session])]

\* const current = Math.max(0, steps - startSteps)
CurrentSteps(reading, snapshot) == Max(0, reading - snapshot)

\* the effect on [steps, phase], run on the rendered state r, writing into acc
StepsEffect(r, acc) ==
    IF r.phase \in {"walking", "quiz", "result"}
    THEN LET current == CurrentSteps(r.steps, r.startSteps)
             a1 == [acc EXCEPT !.sessionSteps = current, !.walkSteps = current]
         IN  IF current >= STEP_GOAL /\ r.phase # "complete"
             THEN HandleWalkComplete(a1, current, r.landscapeItems)
             ELSE a1
    ELSE acc

\* the effect on [sessionSteps, phase, quizList]
QuizEffect(r, acc) ==
    IF /\ r.phase = "walking"
       /\ Len(r.quizList) > 0
       /\ r.sessionSteps > 0
       /\ r.sessionSteps % QUIZ_EVERY = 0
    THEN LET quizIdx == (r.sessionSteps \div QUIZ_EVERY) - 1
         IN  [acc EXCEPT !.currentQuizIdx = quizIdx % Len(r.quizList),
                         !.selectedChoice = Null,
                         !.lastQuizCorrect = Null,
                         !.phase = "quiz",
                         !.boundaryRepeated = (@ \/ r.lastShown = <<r.sessionSteps>>),
                         !.lastShown = <<r.sessionSteps>>]
    ELSE acc

\* dependency arrays of the two effects: changed between renders p and r
StepsDepsChanged(p, r) == r.steps # p.steps \/ r.phase # p.phase

QuizDepsChanged(p, r) ==
    r.sessionSteps # p.sessionSteps \/ r.phase # p.phase \/ r.quizList # p.quizList

\* one commit: the effects whose dependencies changed run in order on the
\* rendered state r, and their state updates are applied together
EffectPass(p, r) ==
    LET a1 == IF StepsDepsChanged(p, r) THEN StepsEffect(r, r) ELSE r
    IN  IF QuizDepsChanged(p, r) THEN QuizEffect(r, a1) ELSE a1

\* the render r following the render p, with the history of renders kept
Rendered(p, r) ==
    [r EXCEPT !.completeLeft =
        (@ \/ (p.phase = "complete" /\ r.phase \in {"walking", "quiz", "result"}))]

\* render after render until no effect has anything left to run
RECURSIVE Settle(_, _)
Settle(p, r) ==
    IF ~StepsDepsChanged(p, r) /\ ~QuizDepsChanged(p, r)
    THEN Rendered(p, r)
    ELSE Settle(Rendered(p, r), EffectPass(p, Rendered(p, r)))

\* the state an event handler leaves (w0), rendered to rest and stored
Commit(w0) ==
    LET w == Settle(World, w0)
    IN  /\ Len(w.completing) <= MaxInFlight
        /\ hookSteps' = w.steps
        /\ phase' = w.phase
        /\ sessionSteps' = w.sessionSteps
        /\ startSteps' = w.startSteps
        /\ quizList' = w.quizList
        /\ currentQuizIdx' = w.currentQuizIdx
        /\ selectedChoice' = w.selectedChoice
        /\ lastQuizCorrect' = w.lastQuizCorrect
        /\ playerLandscapeItems' = w.landscapeItems
        /\ missionWalkSteps' = w.walkSteps
        /\ completing' = w.completing
        /\ wsSession' = w.session
        /\ lastShown' = w.lastShown
        /\ boundaryRepeated' = w.boundaryRepeated
        /\ completeLeft' = w.completeLeft

otherVars == <<serviceVars, bankVars, walkTabVars, ledgerVars, walkTabHist, bankHist,
               moreVars>>

\* usePedometer: watchStepCount delivers the higher cumulative reading s
HookTick(s) ==
    /\ s > hookSteps
    /\ Commit([World EXCEPT !.steps = s])
    /\ UNCHANGED <<starting, resultTimers, wsOpen, wsGrants, lastGrantSteps, otherVars>>

\* the start button (shown in idle): handleStartWalk up to await startWalkSession()
PressStart ==
    /\ phase = "idle"
    /\ wsSession + Len(starting) < MaxWalkSessions
    /\ starting' = Append(starting, [stage |-> "session", steps |-> hookSteps])
    /\ UNCHANGED <<hookSteps, phase, sessionSteps, startSteps, quizList, currentQuizIdx,
                   selectedChoice, lastQuizCorrect, playerLandscapeItems,
                   missionWalkSteps, completing, resultTimers, screenHist, otherVars>>

\* handleStartWalk after startWalkSession() resolved or threw: the session starts
StartWalking(i) ==
    /\ i \in 1..Len(starting)
    /\ starting[i].stage = "session"
    /\ starting' = [starting EXCEPT ![i].stage = "quiz"]
    /\ Commit([World EXCEPT !.startSteps = starting[i].steps,
                            !.sessionSteps = 0,
                            !.phase = "walking",
                            !.session = @ + 1,
                            !.lastShown = Null,
                            !.boundaryRepeated = FALSE])
    /\ wsOpen' = TRUE
    /\ wsGrants' = 0
    /\ UNCHANGED <<resultTimers, lastGrantSteps, otherVars>>

\* handleStartWalk after getWalkQuiz() resolved (ok) or threw
QuizListLoaded(i, ok, a) ==
    /\ i \in 1..Len(starting)
    /\ starting[i].stage = "quiz"
    /\ starting' = SubSeq(starting, 1, i - 1) \o SubSeq(starting, i + 1, Len(starting))
    /\ Commit([World EXCEPT !.quizList = IF ok THEN <<RemoteQuiz(a)>> \o MOCK_QUIZZES
                                         ELSE MOCK_QUIZZES])
    /\ UNCHANGED <<resultTimers, wsOpen, wsGrants, lastGrantSteps, otherVars>>

\* a choice button of the QuizCard (shown in quiz and result): handleSelectChoice
HandleSelectChoice(c) ==
    /\ phase \in {"quiz", "result"}
    /\ currentQuizIdx < Len(quizList)
    /\ selectedChoice = Null
    /\ resultTimers' = resultTimers + 1
    /\ Commit([World EXCEPT !.selectedChoice = <<c>>,
                            !.lastQuizCorrect = <<c = quizList[currentQuizIdx + 1].answer>>,
                            !.phase = "result"])
    /\ UNCHANGED <<starting, wsOpen, wsGrants, lastGrantSteps, otherVars>>

\* the 2.5 s timeout set by handleSelectChoice
ResultTimeout ==
    /\ resultTimers > 0
    /\ resultTimers' = resultTimers - 1
    /\ Commit([World EXCEPT !.phase = "walking",
                            !.selectedChoice = Null,
                            !.lastQuizCorrect = Null])
    /\ UNCHANGED <<starting, wsOpen, wsGrants, lastGrantSteps, otherVars>>

\* the end-walk button (shown in walking): handleWalkComplete(sessionSteps)
EndWalk ==
    /\ phase = "walking"
    /\ Commit(HandleWalkComplete(World, sessionSteps, playerLandscapeItems))
    /\ UNCHANGED <<starting, resultTimers, wsOpen, wsGrants, lastGrantSteps, otherVars>>

\* result.landscapeItems of handleWalkComplete: completeWalk's result if it
\* resolved (ok), the catch branch's 1 if it threw
CompletionItems(finalSteps, ok) ==
    IF ok THEN calcLandscapeItems(finalSteps) ELSE 1

\* handleWalkComplete after completeWalk(finalSteps) resolved (ok) or threw
WalkCompleteSettles(i, ok) ==
    /\ i \in 1..Len(completing)
    /\ LET call == completing[i]
           items == call.base + CompletionItems(call.finalSteps, ok)
           raised == items > playerLandscapeItems
       IN  /\ playerLandscapeItems' = items
           /\ missionWalkSteps' = call.finalSteps
           /\ wsGrants' = IF raised /\ wsOpen /\ call.session = wsSession
                          THEN wsGrants + 1 ELSE wsGrants
           /\ lastGrantSteps' = IF raised THEN <<call.finalSteps>> ELSE lastGrantSteps
    /\ completing' = SubSeq(completing, 1, i - 1)
                        \o SubSeq(completing, i + 1, Len(completing))
    /\ UNCHANGED <<hookSteps, phase, sessionSteps, startSteps, quizList, currentQuizIdx,
                   selectedChoice, lastQuizCorrect, starting, resultTimers,
                   wsSession, wsOpen, lastShown, boundaryRepeated, completeLeft,
                   otherVars>>

\* the home button (shown in complete)
ReturnHome ==
    /\ phase = "complete"
    /\ Commit([World EXCEPT !.phase = "idle", !.sessionSteps = 0])
    /\ wsOpen' = FALSE
    /\ UNCHANGED <<starting, resultTimers, wsGrants, lastGrantSteps, otherVars>>

NextWalkScreen ==
    \/ \E s \in Readings : HookTick(s)
    \/ PressStart
    \/ \E i \in 1..MaxWalkSessions : StartWalking(i)
    \/ \E i \in 1..MaxWalkSessions, ok \in BOOLEAN, a \in RemoteAnswers :
          QuizListLoaded(i, ok, a)
    \/ \E c \in Choices : HandleSelectChoice(c)
    \/ ResultTimeout
    \/ EndWalk
    \/ \E i \in 1..MaxInFlight, ok \in BOOLEAN : WalkCompleteSettles(i, ok)
    \/ ReturnHome

SpecWalkScreen == Init /\ [][NextWalkScreen]_vars

\* ------------------------------------------------------------------------
\* src/store/gameStore.ts
\* ------------------------------------------------------------------------

\* the Infinity of LEVEL_EXP_THRESHOLDS[10], above every experience modelled
Infinity == 2147483647

\* LEVEL_EXP_THRESHOLDS, keys 1..10
LEVEL_EXP_THRESHOLDS == <<100, 250, 500, 900, 1500, 2400, 3700, 5500, 8000, Infinity>>

\* LEVEL_EXP_THRESHOLDS[i] ?? 0, reading the key one above
ThresholdOfNextKey(i) ==
    IF (i + 1) \in DOMAIN LEVEL_EXP_THRESHOLDS THEN LEVEL_EXP_THRESHOLDS[i + 1] ELSE 0

\* LEVEL_EXP_THRESHOLDS[i] ?? 0
ThresholdOrZero(i) ==
    IF i \in DOMAIN LEVEL_EXP_THRESHOLDS THEN LEVEL_EXP_THRESHOLDS[i] ELSE 0

\* the loop of calcVillageLevel from lv on, `level` being the level so far
RECURSIVE LevelLoop(_, _, _)
LevelLoop(exp, lv, level) ==
    IF lv > 10 THEN level
    ELSE IF exp >= ThresholdOrZero(lv - 1)
         THEN LevelLoop(exp, lv + 1, lv)
         ELSE level

\* calcVillageLevel with `let level = 0`
calcVillageLevelFromZero(exp) == Min(LevelLoop(exp, 1, 0), 10)

\* calcVillageLevel(exp)
calcVillageLevel(exp) == Min(LevelLoop(exp, 1, 1), 10)

\* the state of the store as set() reads and merges it
Ledger ==
    [ steps |-> steps, quizHistory |-> quizHistory, dietScore |-> dietScore,
      lastAnalyzedFoods |-> lastAnalyzedFoods, villageLevel |-> villageLevel,
      villageExp |-> villageExp, residents |-> residents, buildings |-> buildings,
      fertilizer |-> fertilizer, landscapeItems |-> landscapeItems,
      cafeScore |-> cafeScore, cafeStreak |-> cafeStreak, streakDays |-> streakDays ]

\* set(...): the store holds l afterwards
SetState(l) ==
    /\ steps' = l.steps
    /\ quizHistory' = l.quizHistory
    /\ dietScore' = l.dietScore
    /\ lastAnalyzedFoods' = l.lastAnalyzedFoods
    /\ villageLevel' = l.villageLevel
    /\ villageExp' = l.villageExp
    /\ residents' = l.residents
    /\ buildings' = l.buildings
    /\ fertilizer' = l.fertilizer
    /\ landscapeItems' = l.landscapeItems
    /\ cafeScore' = l.cafeScore
    /\ cafeStreak' = l.cafeStreak
    /\ streakDays' = l.streakDays

\* everything outside the store
outsideStore == <<serviceVars, bankVars, walkTabVars, walkTabHist, bankHist,
                  screenVars, screenHist, levelVars, cafeVars, cafeHist, laterVars>>

\* one store action called on its own, leaving the store as l
StoreAction(name, l, clamped) ==
    /\ storeOps < MaxStoreOps
    /\ SetState(l)
    /\ storeOps' = storeOps + 1
    /\ lastStoreOp' = name
    /\ lastClamped' = clamped
    /\ UNCHANGED outsideStore

\* arguments the store actions are called with
StepInputs == {0, 2500, 6000}

QuizRecordInputs ==
    { [question |-> "k1", answer |-> "a1", correct |-> TRUE, timestamp |-> 1],
      [question |-> "k2", answer |-> "a2", correct |-> FALSE, timestamp |-> 2] }

DietInputs ==
    { [score |-> 0, foods |-> <<>>], [score |-> 100, foods |-> <<"f1", "f2">>] }

FertilizerAmounts == {0, 2, 5}

UseAmounts == {1, 5}

LandscapeAmounts == {0, 1}

ResidentInputs == {"r1", "r2"}

BuildingInputs ==
    { [id |-> "b1", name |-> "cafe"], [id |-> "b1", name |-> "library"],
      [id |-> "b2", name |-> "cafe"] }

ExpAmounts == {0, 10, 90, 7900}

CafePoints == {10}

\* setSteps(steps)
SetSteps(s) == StoreAction("setSteps", [Ledger EXCEPT !.steps = s], FALSE)

\* [...state.quizHistory, record] with the record put first
HistoryWithFirst(history, rec) == <<rec>> \o history

\* [...state.quizHistory, record]
HistoryWith(history, rec) == Append(history, rec)

\* addQuizRecord(record)
AddQuizRecord(rec) ==
    StoreAction("addQuizRecord",
                [Ledger EXCEPT !.quizHistory = HistoryWith(@, rec)], FALSE)

\* setDietScore(score, foods)
SetDietScore(score, foods) ==
    StoreAction("setDietScore",
                [Ledger EXCEPT !.dietScore = score, !.lastAnalyzedFoods = foods], FALSE)

\* addFertilizer(amount)
AddFertilizer(amount) ==
    StoreAction("addFertilizer", [Ledger EXCEPT !.fertilizer = @ + amount], FALSE)

\* Math.max(0, state.fertilizer - amount), without the Math.max
FertilizerAfterUseUnclamped(f, amount) == f - amount

\* Math.max(0, state.fertilizer - amount)
FertilizerAfterUse(f, amount) == Max(0, f - amount)

\* useFertilizer(amount)
UseFertilizer(amount) ==
    StoreAction("useFertilizer",
                [Ledger EXCEPT !.fertilizer = FertilizerAfterUse(@, amount)],
                amount > fertilizer)

\* addLandscapeItems(amount)
AddLandscapeItems(amount) ==
    StoreAction("addLandscapeItems", [Ledger EXCEPT !.landscapeItems = @ + amount], FALSE)

\* addResident(resident)
AddResident(res) ==
    StoreAction("addResident", [Ledger EXCEPT !.residents = Append(@, res)], FALSE)

\* state.buildings.find((b) => b.id === building.id), comparing the buildings
FoundSameBuilding(held, building) ==
    \E i \in 1..Len(held) : held[i] = building

\* state.buildings.find((b) => b.id === building.id)
Found(held, building) ==
    \E i \in 1..Len(held) : held[i].id = building.id

\* unlockBuilding(building)
UnlockBuilding(building) ==
    StoreAction("unlockBuilding",
                IF Found(buildings, building)
                THEN Ledger
                ELSE [Ledger EXCEPT !.buildings = Append(@, building)],
                Found(buildings, building))

\* newExp = state.villageExp + exp, dropping the experience held
NewExpReplacing(old, exp) == exp

\* newExp = state.villageExp + exp
NewExp(old, exp) == old + exp

\* newLevel = calcVillageLevel(newExp), keeping the level held
NewLevelKept(newExp) == villageLevel

\* newLevel = calcVillageLevel(newExp)
NewLevel(newExp) == calcVillageLevel(newExp)

\* the updater of addVillageExp applied to the state l
LedgerAddVillageExp(l, exp) ==
    [l EXCEPT !.villageExp = NewExp(l.villageExp, exp),
              !.villageLevel = NewLevel(NewExp(l.villageExp, exp))]

\* addVillageExp(exp)
AddVillageExp(exp) ==
    StoreAction("addVillageExp", LedgerAddVillageExp(Ledger, exp), FALSE)

\* the updater of addCafeScore applied to the state l
LedgerAddCafeScore(l, points) ==
    [l EXCEPT !.cafeScore = @ + points, !.cafeStreak = @ + 1]

\* addCafeScore(points)
AddCafeScore(points) ==
    StoreAction("addCafeScore", LedgerAddCafeScore(Ledger, points), FALSE)

\* the state resetCafeSession merges into l
LedgerResetCafeSession(l) == [l EXCEPT !.cafeStreak = 0]

\* resetCafeSession()
ResetCafeSession ==
    StoreAction("resetCafeSession", LedgerResetCafeSession(Ledger), FALSE)

\* incrementStreak()
IncrementStreak ==
    StoreAction("incrementStreak", [Ledger EXCEPT !.streakDays = @ + 1], FALSE)

\* the state resetDailyStats merges into l, with the streak of days reset too
LedgerResetWithStreak(l) ==
    [l EXCEPT !.steps = 0, !.quizHistory = <<>>, !.dietScore = 0,
              !.lastAnalyzedFoods = <<>>, !.cafeScore = 0, !.cafeStreak = 0,
              !.streakDays = 0]

\* the state resetDailyStats merges into l
LedgerResetDailyStats(l) ==
    [l EXCEPT !.steps = 0, !.quizHistory = <<>>, !.dietScore = 0,
              !.lastAnalyzedFoods = <<>>, !.cafeScore = 0, !.cafeStreak = 0]

\* resetDailyStats()
ResetDailyStats ==
    StoreAction("resetDailyStats", LedgerResetDailyStats(Ledger), FALSE)

NextGameStore ==
    \/ \E s \in StepInputs : SetSteps(s)
    \/ \E rec \in QuizRecordInputs : AddQuizRecord(rec)
    \/ \E d \in DietInputs : SetDietScore(d.score, d.foods)
    \/ \E n \in FertilizerAmounts : AddFertilizer(n)
    \/ \E n \in UseAmounts : UseFertilizer(n)
    \/ \E n \in LandscapeAmounts : AddLandscapeItems(n)
    \/ \E res \in ResidentInputs : AddResident(res)
    \/ \E b \in BuildingInputs : UnlockBuilding(b)
    \/ \E e \in ExpAmounts : AddVillageExp(e)
    \/ \E pts \in CafePoints : AddCafeScore(pts)
    \/ ResetCafeSession
    \/ IncrementStreak
    \/ ResetDailyStats

SpecGameStore == Init /\ [][NextGameStore]_vars

\* ------------------------------------------------------------------------
\* calcVillageLevel on drawn inputs
\* ------------------------------------------------------------------------

\* the experience needed for levels 2..10
LevelSteps == {LEVEL_EXP_THRESHOLDS[i] : i \in 1..9}

\* experience values drawn: each threshold, its neighbours, and values far
\* below and above all of them
ExpInputs ==
    {0 - 100, 0 - 1, 0, 1, 100000}
        \cup LevelSteps
        \cup {e - 1 : e \in LevelSteps}
        \cup {e + 1 : e \in LevelSteps}

InitLevelEngine ==
    /\ InitProgram
    /\ NoCall
    /\ levelInputs \in ExpInputs \X ExpInputs
    /\ levelOutputs = <<>>

\* calcVillageLevel applied to both inputs
ComputeLevels ==
    /\ levelOutputs = <<>>
    /\ levelOutputs' = <<calcVillageLevel(levelInputs[1]), calcVillageLevel(levelInputs[2])>>
    /\ UNCHANGED <<serviceVars, bankVars, walkTabVars, ledgerVars, walkTabHist,
                   bankHist, screenVars, screenHist, storeVars, storeHist,
                   levelInputs, cafeVars, cafeHist, laterVars>>

NextLevelEngine == ComputeLevels

SpecLevelEngine == InitLevelEngine /\ [][NextLevelEngine]_vars

\* ------------------------------------------------------------------------
\* app/(tabs)/cafe.tsx with expo-speech and the gameStore
\* ------------------------------------------------------------------------

\* rounds of one cafe session
TOTAL_ROUNDS == 3

\* ids of MENU_ITEMS
MENU_ITEMS ==
    << "ice_americano", "hot_americano", "cafe_latte", "green_tea_latte",
       "strawberry_ade", "lemon_ade", "cappuccino", "hot_chocolate" >>

\* rounds generateRound can return: the correct item and the four choices
\* shown (two of its outcomes)
RoundOutcomes ==
    { [correctItem |-> MENU_ITEMS[1],
       allChoices |-> {MENU_ITEMS[1], MENU_ITEMS[2], MENU_ITEMS[3], MENU_ITEMS[4]}],
      [correctItem |-> MENU_ITEMS[7],
       allChoices |-> {MENU_ITEMS[3], MENU_ITEMS[5], MENU_ITEMS[7], MENU_ITEMS[8]}] }

\* Array.from({ length: TOTAL_ROUNDS }, generateRound)
NewRounds == [1..TOTAL_ROUNDS -> RoundOutcomes]

\* the guard of selectMenu, as wide as the menu is displayed
SelectAllowedWhileShown(ph, sel) == ph \in {"choosing", "feedback"}

\* the guard of selectMenu: !(phase !== 'choosing' || selectedId !== null)
SelectAllowed(ph, sel) == ph = "choosing" /\ sel = Null

\* nextRound = currentRound + 1, skipping a round
NextRoundSkipping(cur) == cur + 2

\* nextRound = currentRound + 1
NextRound(cur) == cur + 1

\* exp = (sessionCorrect + (correct ? 1 : 0)) * 10, without the last answer
SessionExpBeforeLast(correctSoFar, correct) == correctSoFar * 10

\* exp = (sessionCorrect + (correct ? 1 : 0)) * 10
SessionExp(correctSoFar, correct) == (correctSoFar + (IF correct THEN 1 ELSE 0)) * 10

\* everything outside the cafe tab and the store
outsideCafe == <<serviceVars, bankVars, walkTabVars, walkTabHist, bankHist,
                 screenVars, screenHist, storeHist, levelVars, laterVars>>

\* startRound(round): the selection and the overlay are cleared
\* (distractorAnim.setValue(0) ends a fade-out still running, whose callback
\* sets choosing), and the order is spoken; ph is the phase set before the call
StartRound(ph) ==
    /\ selectedId' = Null
    /\ showDistractor' = FALSE
    /\ fadeOut' = FALSE
    /\ cafePhase' = IF fadeOut THEN "choosing" ELSE ph
    \* speak(fullScript, onDone): Speech.stop() drops the utterance in progress
    /\ isSpeakingRef' = TRUE
    /\ utterance' = "order"

\* the start button (shown in ready and result): startGame()
StartGame(newRounds) ==
    /\ cafePhase \in {"ready", "result"}
    /\ cafeSessions < MaxCafeSessions
    /\ rounds' = newRounds
    /\ currentRound' = 0
    /\ sessionCorrect' = 0
    /\ SetState(LedgerResetCafeSession(Ledger))
    /\ StartRound("ordering")
    /\ cafeSessions' = cafeSessions + 1
    /\ roundAnswers' = <<>>
    /\ expGrants' = <<>>
    /\ cafeLast' = "startGame"
    /\ UNCHANGED <<feedbackTimers, outsideCafe>>

\* expo-speech reports the utterance in progress as done: the onDone passed
\* to Speech.speak runs
SpeechDone ==
    /\ utterance # "none"
    /\ CASE utterance = "order" ->
              \* setPhase('distracted'); showDistractorOverlay(text), which speaks
              /\ cafePhase' = "distracted"
              /\ showDistractor' = TRUE
              /\ isSpeakingRef' = TRUE
              /\ utterance' = "distractor"
              /\ UNCHANGED fadeOut
         [] utterance = "distractor" ->
              \* the overlay fades out (300 ms)
              /\ isSpeakingRef' = FALSE
              /\ utterance' = "none"
              /\ fadeOut' = TRUE
              /\ UNCHANGED <<cafePhase, showDistractor>>
         [] OTHER ->
              \* the feedback line was spoken without a callback
              /\ isSpeakingRef' = FALSE
              /\ utterance' = "none"
              /\ UNCHANGED <<cafePhase, showDistractor, fadeOut>>
    /\ cafeLast' = "speechDone"
    /\ UNCHANGED <<currentRound, rounds, selectedId, sessionCorrect, feedbackTimers,
                   cafeSessions, roundAnswers, expGrants, ledgerVars, storeVars,
                   outsideCafe>>

\* expo-speech reports the utterance in progress as failed: Speech.speak was
\* given no onError, so nothing of the component runs
SpeechError ==
    /\ utterance # "none"
    /\ utterance' = "none"
    /\ cafeLast' = "speechError"
    /\ UNCHANGED <<cafePhase, currentRound, rounds, selectedId, sessionCorrect,
                   showDistractor, isSpeakingRef, fadeOut, feedbackTimers,
                   cafeSessions, roundAnswers, expGrants, ledgerVars, storeVars,
                   outsideCafe>>

\* the fade-out of the overlay ends: setShowDistractor(false); setPhase('choosing')
FadeOutEnds ==
    /\ fadeOut
    /\ fadeOut' = FALSE
    /\ showDistractor' = FALSE
    /\ cafePhase' = "choosing"
    /\ cafeLast' = "fadeOutEnds"
    /\ UNCHANGED <<currentRound, rounds, selectedId, sessionCorrect, isSpeakingRef,
                   utterance, feedbackTimers, cafeSessions, roundAnswers, expGrants,
                   ledgerVars, storeVars, outsideCafe>>

\* selectMenu(itemId), for an item of the round displayed
SelectMenu(itemId) ==
    /\ currentRound < Len(rounds)
    /\ itemId \in rounds[currentRound + 1].allChoices
    /\ IF ~SelectAllowed(cafePhase, selectedId)
       THEN /\ cafeLast' = "selectIgnored"
            /\ UNCHANGED <<cafePhase, currentRound, rounds, selectedId, sessionCorrect,
                           showDistractor, isSpeakingRef, utterance, fadeOut,
                           feedbackTimers, cafeSessions, roundAnswers, expGrants,
                           ledgerVars, storeVars>>
       ELSE LET correct == itemId = rounds[currentRound + 1].correctItem
            IN  /\ selectedId' = <<itemId>>
                /\ IF correct
                   THEN /\ sessionCorrect' = sessionCorrect + 1
                        /\ SetState(LedgerAddCafeScore(Ledger, 10))
                   ELSE UNCHANGED <<sessionCorrect, ledgerVars, storeVars>>
                \* speak(feedback line), no onDone
                /\ isSpeakingRef' = TRUE
                /\ utterance' = "feedback"
                /\ cafePhase' = "feedback"
                \* setTimeout(..., 1800) closing over this render's values
                /\ feedbackTimers' =
                      Append(feedbackTimers,
                             [currentRound |-> currentRound,
                              sessionCorrect |-> sessionCorrect,
                              correct |-> correct, rounds |-> rounds])
                /\ roundAnswers' = Append(roundAnswers, correct)
                /\ cafeLast' = "select"
                /\ UNCHANGED <<currentRound, rounds, showDistractor, fadeOut,
                               cafeSessions, expGrants>>
    /\ UNCHANGED outsideCafe

\* the 1.8 s timeout set by selectMenu
FeedbackTimeout(i) ==
    /\ i \in 1..Len(feedbackTimers)
    /\ feedbackTimers' = SubSeq(feedbackTimers, 1, i - 1)
                            \o SubSeq(feedbackTimers, i + 1, Len(feedbackTimers))
    /\ LET t == feedbackTimers[i]
           nextRound == NextRound(t.currentRound)
       IN  IF nextRound < TOTAL_ROUNDS
           THEN /\ currentRound' = nextRound
                /\ StartRound("ordering")
                /\ UNCHANGED <<expGrants, ledgerVars, storeVars>>
           ELSE /\ cafePhase' = "result"
                \* Speech.stop()
                /\ utterance' = "none"
                /\ SetState(LedgerAddVillageExp(Ledger,
                                                SessionExp(t.sessionCorrect, t.correct)))
                /\ expGrants' = Append(expGrants,
                                       SessionExp(t.sessionCorrect, t.correct))
                /\ UNCHANGED <<currentRound, selectedId, showDistractor, isSpeakingRef,
                               fadeOut>>
    /\ cafeLast' = "feedbackTimeout"
    /\ UNCHANGED <<rounds, sessionCorrect, cafeSessions, roundAnswers, outsideCafe>>

NextTabsCafe ==
    \/ \E newRounds \in NewRounds : StartGame(newRounds)
    \/ SpeechDone
    \/ SpeechError
    \/ FadeOutEnds
    \/ \E itemId \in {MENU_ITEMS[k] : k \in 1..Len(MENU_ITEMS)} : SelectMenu(itemId)
    \/ \E i \in 1..Len(feedbackTimers) : FeedbackTimeout(i)

SpecTabsCafe == Init /\ [][NextTabsCafe]_vars

\* ------------------------------------------------------------------------
\* Claims about the walk tab and PedometerService (under SpecTabsWalk)
\* ------------------------------------------------------------------------

\* C1: in every walk-tab session addLandscapeItems(1) has been applied exactly
\* once if a tick with steps >= 5000 was delivered in the session, and not at
\* all otherwise; so later ticks at or above 5000 (repeated or stale ones too)
\* grant nothing more.
C1_RewardOncePerSession ==
    sessionGrants = (IF sessionMaxSteps >= REWARD_MILESTONE THEN 1 ELSE 0)

\* a goal tick was delivered again with the same step count, after the grant
C1_Witness ==
    /\ sessionGrants = 1
    /\ tickRepeated
    /\ currentSteps >= REWARD_MILESTONE

\* C4: within a session every milestone passed to the quiz callback is a
\* positive multiple of 1000 no greater than a delivered step count (so ticks
\* below 1000 never fire), and no milestone value is passed twice.
C4_MilestoneFiresOnce ==
    /\ \A i \in 1..Len(firedLog) :
          /\ firedLog[i] > 0
          /\ firedLog[i] % QUIZ_INTERVAL = 0
          /\ firedLog[i] <= sessionMaxSteps
    /\ \A i, j \in 1..Len(firedLog) : i # j => firedLog[i] # firedLog[j]

\* the tick that reached a milestone was delivered a second time
C4_Witness ==
    /\ tickRepeated
    /\ Len(firedLog) = 1
    /\ currentSteps = firedLog[1]

\* positive multiples of QUIZ_INTERVAL a tick can reach
Boundaries == {k * QUIZ_INTERVAL : k \in 1..(MaxThousands + 1)}

\* boundaries above the cursor `last` that a tick of s steps reaches
BoundariesCrossed(last, s) == {b \in Boundaries : last < b /\ b <= s}

\* the greatest element of a non-empty set of numbers
Greatest(S) == CHOOSE b \in S : \A c \in S : c <= b

\* C5: a tick that crosses two or more boundaries at once fires the quiz
\* callback exactly once, with the highest boundary at or below its step
\* count; and whatever a tick fires lies above the cursor, so a skipped
\* boundary never fires later.
C5_BurstFiresHighestOnly ==
    /\ [][\A s \in TickSteps, r \in WalkRandoms :
            (SensorTick(s, r)
               /\ Cardinality(BoundariesCrossed(lastQuizMilestone, s)) >= 2)
            => /\ firedLog' = Append(firedLog,
                                Greatest(BoundariesCrossed(lastQuizMilestone, s)))
               /\ lastQuizMilestone' = Greatest(BoundariesCrossed(lastQuizMilestone, s))
         ]_vars
    /\ [][\A i \in (Len(firedLog) + 1)..Len(firedLog') :
            firedLog'[i] > lastQuizMilestone]_vars

\* a burst skipped a boundary, and a later tick fell into the skipped interval
C5_Witness ==
    \E i \in 1..(Len(firedLog) - 1) :
        /\ firedLog[i + 1] >= firedLog[i] + 2 * QUIZ_INTERVAL
        /\ currentSteps >= firedLog[i] + QUIZ_INTERVAL
        /\ currentSteps < firedLog[i + 1]

\* C6: in a newly started session the first tick at or above 1000 steps fires
\* a quiz trigger, whatever milestone an earlier session reached.
C6_NewSessionFiresFirstMilestone ==
    sessionMaxSteps >= QUIZ_INTERVAL => Len(firedLog) >= 1

\* ------------------------------------------------------------------------
\* Claims about src/screens/WalkScreen.tsx (under SpecWalkScreen)
\* ------------------------------------------------------------------------

\* C2: between a session start and the return to idle, the terminal reward of
\* handleWalkComplete raises player.landscapeItems at most once.
C2_TerminalRewardOnce == wsGrants <= 1

\* C3: landscape items are only ever added by a handleWalkComplete call whose
\* session step count is at or above the walk goal.
C3_RewardOnlyAtGoal ==
    lastGrantSteps = Null \/ lastGrantSteps[1] >= STEP_GOAL

\* C7: within a session no quiz is presented a second time for the same
\* session step count (the same crossed boundary).
C7_OneQuizPerBoundary == ~boundaryRepeated

\* ------------------------------------------------------------------------
\* Claims about the quiz bank (under SpecQuizBank)
\* ------------------------------------------------------------------------

\* C8: starting from an empty usedQuizIds, the first CatalogSize calls of
\* getRandomQuiz return pairwise distinct ids.
C8_FirstCycleDistinct ==
    Cardinality(firstDraws) = Min(drawCount, CatalogSize)

\* the whole catalog was dispensed by the first CatalogSize calls
C8_Witness ==
    /\ drawCount = CatalogSize
    /\ firstDraws = QuizIds

\* C9: usedQuizIds equals the set of ids dispensed since it was last cleared
\* (the id returned by the clearing call included), and no id is dispensed
\* twice within one cycle.
C9_UsedEqualsDispensed ==
    /\ usedQuizIds = cycleDispensed
    /\ ~cycleRepeat

\* C10: two consecutive getRandomQuiz calls return the same id only when the
\* second of them is the call that cleared usedQuizIds.
C10_RepeatOnlyAtWrap ==
    (lastQuiz # <<>> /\ prevQuiz = lastQuiz) => lastWasWrap

\* C11: every getRandomQuiz call returns an item of the catalog, also the call
\* made when every item has been used, and usedQuizIds is always a subset of
\* the catalog's ids, for every sequence of getRandomQuiz and resetDaily.
C11_AlwaysDispensesFromCatalog ==
    /\ usedQuizIds \subseteq QuizIds
    /\ \A i \in 1..Len(lastQuiz) : lastQuiz[i] \in QuizIds

\* the call made with every item used returned a catalog item
C11_Witness ==
    /\ lastWasWrap
    /\ drawCount = CatalogSize + 1
    /\ lastQuiz = <<FALLBACK_QUIZZES[1]>>
    /\ usedQuizIds = {}

\* ------------------------------------------------------------------------
\* Claims about the gameStore (under SpecGameStore)
\* ------------------------------------------------------------------------

\* C12: in every state reached through the store's actions villageLevel is
\* calcVillageLevel(villageExp): no action leaves a stale level and none
\* changes the level apart from the experience.
C12_LevelFollowsExp == villageLevel = calcVillageLevel(villageExp)

\* level 10 reached at exactly 8000, and kept by a daily reset applied after it
C12_Witness ==
    /\ villageExp = 8000
    /\ villageLevel = 10
    /\ lastStoreOp = "resetDailyStats"

\* C15: no store action lowers villageExp when addVillageExp is called with
\* non-negative amounts, and resetDailyStats and resetCafeSession leave it as
\* it was.
C15_ExpNeverDecreases ==
    /\ [][villageExp' >= villageExp]_vars
    /\ [][(ResetDailyStats \/ ResetCafeSession) => villageExp' = villageExp]_vars

\* experience was earned and a daily reset applied after it
C15_Witness ==
    /\ villageExp > 0
    /\ lastStoreOp = "resetDailyStats"
    /\ storeOps >= 2

\* C16: fertilizer and landscapeItems are never negative, and useFertilizer(n)
\* leaves fertilizer - n if that is not negative and 0 otherwise (it is
\* applied whatever n is).
C16_ResourcesNonNegative ==
    /\ [](fertilizer >= 0 /\ landscapeItems >= 0)
    /\ [][\A n \in UseAmounts :
            UseFertilizer(n)
            => fertilizer' = (IF fertilizer >= n THEN fertilizer - n ELSE 0)]_vars
    /\ [][\A n \in UseAmounts : storeOps < MaxStoreOps => ENABLED UseFertilizer(n)]_vars

\* more fertilizer was used than was held, and none is left
C16_Witness ==
    /\ lastStoreOp = "useFertilizer"
    /\ lastClamped
    /\ fertilizer = 0
    /\ storeOps >= 2

\* ------------------------------------------------------------------------
\* Claims about calcVillageLevel (under SpecLevelEngine)
\* ------------------------------------------------------------------------

\* C13: calcVillageLevel is monotonic (e1 <= e2 gives level(e1) <= level(e2)),
\* is 1 at experience 0, and lies in 1..10 for every integer.
C13_LevelMonotonicBounded ==
    levelOutputs # <<>> =>
        /\ levelInputs[1] <= levelInputs[2] => levelOutputs[1] <= levelOutputs[2]
        /\ \A i \in 1..2 :
              /\ levelOutputs[i] >= 1
              /\ levelOutputs[i] <= 10
              /\ levelInputs[i] = 0 => levelOutputs[i] = 1

\* computed for a negative experience and for one above every threshold
C13_Witness ==
    /\ levelOutputs = <<1, 10>>
    /\ levelInputs[1] < 0
    /\ levelInputs[2] > 8000

\* the experience needed for each level, threshold[1] being 0
LevelThreshold == <<0, 100, 250, 500, 900, 1500, 2400, 3700, 5500, 8000>>

\* levels whose threshold the experience e has reached
LevelsReached(e) == {l \in 1..10 : e >= LevelThreshold[l]}

\* C14: for experience >= 0 calcVillageLevel is the greatest level in 1..10
\* whose threshold (0, 100, 250, 500, 900, 1500, 2400, 3700, 5500, 8000) the
\* experience has reached; level 2 is reached exactly from 100 on and level 10
\* exactly from 8000 on.
C14_GreatestLevelReached ==
    levelOutputs # <<>> =>
        \A i \in 1..2 :
            /\ levelInputs[i] >= 0 =>
                  /\ levelOutputs[i] \in LevelsReached(levelInputs[i])
                  /\ \A l \in LevelsReached(levelInputs[i]) : l <= levelOutputs[i]
            /\ levelOutputs[i] >= 2 <=> levelInputs[i] >= 100
            /\ levelOutputs[i] = 10 <=> levelInputs[i] >= 8000

\* computed at the first threshold and just below the last one
C14_Witness ==
    /\ levelInputs = <<100, 7999>>
    /\ levelOutputs = <<2, 9>>

\* ------------------------------------------------------------------------
\* Claims about app/(tabs)/cafe.tsx (under SpecTabsCafe)
\* ------------------------------------------------------------------------

\* C17: a round in the ordering or distracted phase always has something
\* still to come that leads it on to choosing (a speech in progress or the
\* overlay's fade-out), also after a speech was reported as failed; otherwise
\* the round can never reach the choosing phase.
C17_SpeechFailureNeverStalls ==
    cafePhase \in {"ordering", "distracted"}
        => (utterance \in {"order", "distractor"} \/ fadeOut)

\* C18: the session starts in ready with round 0; the phase and the round
\* change only along ready -> ordering(0) -> distracted -> choosing ->
\* feedback -> ordering(round + 1) if round + 1 < 3, else result; result is
\* left only by a start, which sets the round and the session's correct count
\* to 0; the round never exceeds 2.
C18_PhaseOrder ==
    /\ cafePhase = "ready" /\ currentRound = 0
    /\ [][ /\ (cafePhase' # cafePhase \/ currentRound' # currentRound) =>
                \/ /\ cafePhase \in {"ready", "result"}
                   /\ cafePhase' = "ordering"
                   /\ currentRound' = 0
                   /\ sessionCorrect' = 0
                \/ /\ cafePhase = "ordering"
                   /\ cafePhase' = "distracted"
                   /\ currentRound' = currentRound
                \/ /\ cafePhase = "distracted"
                   /\ cafePhase' = "choosing"
                   /\ currentRound' = currentRound
                \/ /\ cafePhase = "choosing"
                   /\ cafePhase' = "feedback"
                   /\ currentRound' = currentRound
                \/ /\ cafePhase = "feedback"
                   /\ cafePhase' = "ordering"
                   /\ currentRound + 1 < 3
                   /\ currentRound' = currentRound + 1
                \/ /\ cafePhase = "feedback"
                   /\ cafePhase' = "result"
                   /\ currentRound + 1 >= 3
                   /\ currentRound' = currentRound
           /\ currentRound' \in 0..2
         ]_vars

\* a second session, started from result, has run through its three rounds
C18_Witness ==
    /\ cafeSessions = 2
    /\ cafePhase = "result"
    /\ currentRound = 2

\* the number of correct answers among the scored selections
CorrectCount(answers) == Cardinality({i \in 1..Len(answers) : answers[i]})

\* C19: a session that has reached result has called addVillageExp exactly
\* once, with 10 times the number of its rounds answered correctly; before
\* result it has not called it.
C19_ExpGrantedOnceAtResult ==
    IF cafePhase = "result"
    THEN /\ Len(roundAnswers) = 3
         /\ expGrants = <<10 * CorrectCount(roundAnswers)>>
    ELSE expGrants = <<>>

\* a session with a wrong answer between two correct ones reached result
C19_Witness ==
    /\ cafePhase = "result"
    /\ roundAnswers = <<TRUE, FALSE, TRUE>>
    /\ expGrants = <<20>>

\* C20: a selection made in the choosing phase moves the round to feedback
\* and adds 10 to cafeScore if the item is the round's correct one, nothing
\* otherwise; a selection in another phase or after one was made changes
\* neither the phase nor the score; so at most one selection per round is
\* scored.
C20_OneScoredSelectionPerRound ==
    /\ [][\A k \in 1..Len(MENU_ITEMS) :
            SelectMenu(MENU_ITEMS[k]) =>
                IF cafePhase = "choosing" /\ selectedId = Null
                THEN /\ cafePhase' = "feedback"
                     /\ cafeScore' = cafeScore
                            + (IF MENU_ITEMS[k] = rounds[currentRound + 1].correctItem
                               THEN 10 ELSE 0)
                ELSE /\ cafePhase' = cafePhase
                     /\ cafeScore' = cafeScore
         ]_vars
    /\ [](Len(roundAnswers) <= currentRound + 1)

\* after a correct selection a second one was made in feedback and ignored
C20_Witness ==
    /\ cafeLast = "selectIgnored"
    /\ cafePhase = "feedback"
    /\ selectedId # Null
    /\ cafeScore = 10

\* ------------------------------------------------------------------------
\* The quiz card of the walk tab: app/(tabs)/walk.tsx (SpecWalkQuiz)
\* ------------------------------------------------------------------------

\* question, choices and answer of the quizzes of FALLBACK_QUIZZES
QuizData ==
    [ q1 |-> [question |-> "capital of Korea",
              choices |-> <<"Busan", "Seoul", "Daegu", "Incheon">>, answer |-> "Seoul"],
      q2 |-> [question |-> "apple in English",
              choices |-> <<"Banana", "Orange", "Apple", "Grape">>, answer |-> "Apple"],
      q3 |-> [question |-> "season after autumn",
              choices |-> <<"spring", "summer", "autumn", "winter">>, answer |-> "winter"],
      q4 |-> [question |-> "5 times 7",
              choices |-> <<"30", "35", "40", "45">>, answer |-> "35"],
      q5 |-> [question |-> "colour of the sky",
              choices |-> <<"red", "yellow", "blue", "green">>, answer |-> "blue"],
      q6 |-> [question |-> "months in a year",
              choices |-> <<"10 months", "11 months", "12 months", "13 months">>,
              answer |-> "12 months"],
      q7 |-> [question |-> "sound of a dog",
              choices |-> <<"meow", "woof", "moo", "cock-a-doodle">>, answer |-> "woof"],
      q8 |-> [question |-> "colours of the rainbow",
              choices |-> <<"5 kinds", "6 kinds", "7 kinds", "8 kinds">>,
              answer |-> "7 kinds"] ]

\* QuizState { phase: 'answered', quiz, selected, correct }
AnsweredQuiz(q, choice, correct) ==
    [phase |-> "answered", quiz |-> q, selected |-> choice, correct |-> correct]

\* answers recorded by the quiz card in one run
MaxAnswers == 2

\* step readings delivered while the quiz card is observed
QuizTickSteps == {1000}

\* quizzes marked used beyond which the test button is not pressed again
MaxTestDraws == 2

\* Math.random() outcomes of the quiz card's draws
QuizRandoms == {0}

\* the choice buttons pressed: the first choice and the answer of the quiz shown
\* (the buttons are rendered while the phase is not idle; selectAnswer is also
\* called with no quiz shown, with the first choice of q1)
PressedChoices ==
    IF quizState.phase = "idle" THEN {QuizData["q1"].choices[1]}
    ELSE {QuizData[quizState.quiz].choices[1], QuizData[quizState.quiz].answer}

\* addQuizRecord(record) of the store: the ledger afterwards
LedgerAddQuizRecord(l, rec) == [l EXCEPT !.quizHistory = HistoryWith(@, rec)]

\* selectAnswer's guard "if (quizState.phase !== 'playing') return", negated
AnswerAllowedWhileShown(ph) == ph # "idle"

AnswerAllowed(ph) == ph = "playing"

\* selectAnswer(choice), the clock reading now
SelectAnswer(choice, now) ==
    IF AnswerAllowed(quizState.phase)
    THEN LET quiz == QuizData[quizState.quiz]
             correct == choice = quiz.answer
         IN /\ Len(quizHistory) < MaxAnswers
            /\ quizState' = AnsweredQuiz(quizState.quiz, choice, correct)
            /\ SetState(LedgerAddQuizRecord(Ledger,
                   [question |-> quiz.question, answer |-> choice,
                    correct |-> correct, timestamp |-> now]))
            /\ storeOps' = storeOps + 1
            /\ lastStoreOp' = "addQuizRecord"
            /\ lastClamped' = FALSE
            /\ closeTimers' = closeTimers + 1
            /\ UNCHANGED <<serviceVars, bankVars, pedometerStatus, isTracking,
                           rewardGivenRef, quizFadeOut, walkTabHist, bankHist,
                           screenVars, screenHist, levelVars, cafeVars, cafeHist,
                           laterVars>>
    ELSE /\ lastRefused' = <<quizState>>
         /\ UNCHANGED <<serviceVars, bankVars, walkTabVars, ledgerVars, walkTabHist,
                        bankHist, screenVars, screenHist, storeVars, storeHist,
                        levelVars, cafeVars, cafeHist, startHist, remoteVars,
                        callVars>>

\* the timeout set by selectAnswer fires after 3 s: the fade-out starts; a
\* fade-out already running is stopped and its callback sets the state to idle
CloseTimerFires ==
    /\ closeTimers > 0
    /\ closeTimers' = closeTimers - 1
    /\ quizFadeOut' = TRUE
    /\ quizState' = IF quizFadeOut THEN IdleQuiz ELSE quizState
    /\ UNCHANGED <<serviceVars, bankVars, pedometerStatus, isTracking, rewardGivenRef,
                   ledgerVars, walkTabHist, bankHist, screenVars, screenHist,
                   moreVars>>

\* the fade-out ends after 300 ms: its callback, setQuizState({ phase: 'idle' })
QuizFadeOutEnds ==
    /\ quizFadeOut
    /\ quizFadeOut' = FALSE
    /\ quizState' = IdleQuiz
    /\ UNCHANGED <<serviceVars, bankVars, pedometerStatus, isTracking, rewardGivenRef,
                   closeTimers, ledgerVars, walkTabHist, bankHist, screenVars,
                   screenHist, moreVars>>

\* the test button (always rendered): triggerTestQuiz() = triggerQuiz(steps || 1000)
TriggerTestQuiz(r) ==
    /\ Cardinality(usedQuizIds) < MaxTestDraws
    /\ TriggerQuiz(r)
    /\ UNCHANGED <<serviceVars, pedometerStatus, isTracking, rewardGivenRef,
                   closeTimers, ledgerVars, walkTabHist, bankHist, screenVars,
                   screenHist, moreVars>>

NextWalkQuiz ==
    \/ Initialize(StatusAvailable)
    \/ StartTracking
    \/ StopTracking
    \/ \E s \in QuizTickSteps, r \in QuizRandoms : SensorTick(s, r)
    \/ \E r \in QuizRandoms : TriggerTestQuiz(r)
    \/ \E choice \in PressedChoices : SelectAnswer(choice, Len(quizHistory) + 1)
    \/ CloseTimerFires
    \/ QuizFadeOutEnds

SpecWalkQuiz == Init /\ [][NextWalkQuiz]_vars

\* ------------------------------------------------------------------------
\* Claims about the walk tab's quiz card (under SpecWalkQuiz)
\* ------------------------------------------------------------------------

\* C21: the quiz history grows exactly in the steps that take the quiz state
\* from playing to answered, and then by one record: its answer is the choice
\* selected, its question is the presented quiz's, and it is correct exactly
\* when the choice equals the quiz's answer string; the answered state keeps
\* the quiz. A selection refused because no quiz is playing (already answered,
\* or no quiz shown) changes neither the quiz state nor the ledger nor the
\* close timers.
C21_SelectionRecordsOnce ==
    [][ /\ (quizHistory' # quizHistory)
            <=> (quizState.phase = "playing" /\ quizState'.phase = "answered")
        /\ (quizHistory' # quizHistory) =>
            LET last == quizHistory'[Len(quizHistory')]
            IN /\ quizHistory' = Append(quizHistory, last)
               /\ last.answer = quizState'.selected
               /\ last.question = QuizData[quizState.quiz].question
               /\ last.correct = (last.answer = QuizData[quizState.quiz].answer)
               /\ quizState'.quiz = quizState.quiz
               /\ quizState'.correct = last.correct
        /\ (lastRefused' # lastRefused) =>
            /\ quizState.phase # "playing"
            /\ lastRefused' = <<quizState>>
            /\ UNCHANGED <<quizState, storeVars, ledgerVars, closeTimers, quizFadeOut,
                           usedQuizIds>> ]_vars

\* two answers were recorded, a correct and a wrong one, and a selection on an
\* already answered quiz was refused
C21_Witness ==
    /\ Len(quizHistory) = 2
    /\ \E i, j \in 1..2 : quizHistory[i].correct /\ ~quizHistory[j].correct
    /\ lastRefused # <<>>
    /\ lastRefused[1].phase = "answered"

\* ------------------------------------------------------------------------
\* Further claims about src/screens/WalkScreen.tsx (under SpecWalkScreen)
\* ------------------------------------------------------------------------

\* C22: a step that ends walking below the goal (the phase leaves walking for
\* something other than a quiz while the session steps are below STEP_GOAL)
\* lands in idle, and no settling of a completion whose final steps are below
\* the goal changes the player's landscape items.
C22_StopBeforeGoalDiscards ==
    [][ /\ (phase = "walking" /\ phase' \notin {"walking", "quiz"}
                /\ sessionSteps' < STEP_GOAL)
            => (phase' = "idle" /\ playerLandscapeItems' = playerLandscapeItems)
        /\ (completing' # completing /\ Len(completing') < Len(completing)
                /\ missionWalkSteps' < STEP_GOAL)
            => playerLandscapeItems' = playerLandscapeItems ]_vars

\* C23: no render in the complete phase is followed by a render in walking,
\* quiz or result: from complete the phase only goes to idle.
C23_CompleteAbsorbing == ~completeLeft

\* ------------------------------------------------------------------------
\* Further claims about the walk tab's quiz card (under SpecWalkQuiz)
\* ------------------------------------------------------------------------

\* C24: a quiz in the playing phase is only ever replaced by its own answered
\* state (the user answered it) or by idle in the step that stops the session;
\* no trigger and no close timer changes the quiz state of an unanswered quiz.
C24_PresentedQuizStays ==
    [][ (quizState.phase = "playing" /\ quizState' # quizState) =>
            \/ quizState'.phase = "answered" /\ quizState'.quiz = quizState.quiz
            \/ isTracking /\ ~isTracking' /\ quizState' = IdleQuiz ]_vars

\* ------------------------------------------------------------------------
\* The reward functions of src/services/healthService.ts, applied to drawn
\* arguments (SpecFertilizer, SpecLandscapeItems)
\* ------------------------------------------------------------------------

\* everything but the result of the function applied
outsideResult == <<serviceVars, bankVars, walkTabVars, ledgerVars, walkTabHist,
                   bankHist, screenVars, screenHist, storeVars, storeHist, levelVars,
                   cafeVars, cafeHist, quizCardHist, startHist, remoteVars, callArgs>>

\* the program at rest, about to apply a function to arguments drawn from calls
InitCalls(calls) ==
    /\ InitProgram
    /\ levelInputs = <<0, 0>>
    /\ levelOutputs = <<>>
    /\ callArgs \in calls
    /\ callResult = <<>>

\* the function called name returns result
Returns(name, result) ==
    /\ callArgs # <<>>
    /\ callArgs[1] = name
    /\ callResult = <<>>
    /\ callResult' = result
    /\ UNCHANGED outsideResult

\* calcFertilizer with exclusive lower bounds
calcFertilizerAbove(mindScore) ==
    IF mindScore > 80 THEN 5
    ELSE IF mindScore > 60 THEN 3
    ELSE IF mindScore > 40 THEN 2
    ELSE IF mindScore > 20 THEN 1
    ELSE 0

\* calcFertilizer(mindScore), the score in tenths
calcFertilizer(mindScore) ==
    IF mindScore >= 80 THEN 5
    ELSE IF mindScore >= 60 THEN 3
    ELSE IF mindScore >= 40 THEN 2
    ELSE IF mindScore >= 20 THEN 1
    ELSE 0

\* MIND scores 0.0 .. 10.0, in tenths
MindScores == 0..100

CallFertilizer ==
    Returns("calcFertilizer", <<calcFertilizer(callArgs[2])>>)

SpecFertilizer ==
    /\ InitCalls({<<"calcFertilizer", s>> : s \in MindScores})
    /\ [][CallFertilizer]_vars

\* step counts around the thresholds of calcLandscapeItems
LandscapeSteps ==
    {0, 1, 4999, 5000, 5001, 6999, 7000, 7001, 9999, 10000, 10001, 20000}

\* calcLandscapeItems applied to two step counts
CallLandscapeItems ==
    Returns("calcLandscapeItems",
            <<calcLandscapeItems(callArgs[2]), calcLandscapeItems(callArgs[3])>>)

SpecLandscapeItems ==
    /\ InitCalls({<<"calcLandscapeItems", a, b>> : a, b \in LandscapeSteps})
    /\ [][CallLandscapeItems]_vars

\* ------------------------------------------------------------------------
\* Claims about the reward functions (under SpecFertilizer, SpecLandscapeItems)
\* ------------------------------------------------------------------------

\* the rewards of calcFertilizer by the number of thresholds reached
FertilizerRewards == <<0, 1, 2, 3, 5>>

\* C25: for every score from 0.0 to 10.0 calcFertilizer returns the reward of
\* the highest of the thresholds 2, 4, 6, 8 that the score has reached
\* (inclusive), 0 below 2; in particular 3 for 7.9 and 5 for 8.0.
C25_FertilizerSteps ==
    (callArgs # <<>> /\ callArgs[1] = "calcFertilizer" /\ callResult # <<>>) =>
        LET score == callArgs[2]
            reached == Cardinality({t \in {20, 40, 60, 80} : score >= t})
        IN  /\ callResult = <<FertilizerRewards[reached + 1]>>
            /\ score = 79 => callResult = <<3>>
            /\ score = 80 => callResult = <<5>>

\* calcFertilizer(8.0) has returned 5
C25_Witness ==
    callArgs = <<"calcFertilizer", 80>> /\ callResult = <<5>>

\* C26: for every step count calcLandscapeItems returns the number of the
\* thresholds 5000, 7000, 10000 that the count has reached (inclusive): 0 at
\* 4999, 1 at 5000, 3 at 10000; and of two step counts the larger never gets
\* fewer items.
C26_LandscapeSteps ==
    (callArgs # <<>> /\ callArgs[1] = "calcLandscapeItems" /\ callResult # <<>>) =>
        LET a == callArgs[2]
            b == callArgs[3]
        IN  /\ callResult[1] = Cardinality({t \in {5000, 7000, 10000} : a >= t})
            /\ callResult[2] = Cardinality({t \in {5000, 7000, 10000} : b >= t})
            /\ a = 4999 => callResult[1] = 0
            /\ a = 5000 => callResult[1] = 1
            /\ a = 10000 => callResult[1] = 3
            /\ a <= b => callResult[1] <= callResult[2]

\* calcLandscapeItems has returned 1 for 5000 and 3 for 10000
C26_Witness ==
    callArgs = <<"calcLandscapeItems", 5000, 10000>> /\ callResult = <<1, 3>>

\* ------------------------------------------------------------------------
\* selectHealthScore of src/store/gameStore.ts (SpecHealthScore, and on the
\* ledger states of SpecGameStore)
\* ------------------------------------------------------------------------

\* walkGoal of the store's initial state; no action writes it
walkGoal == 5000

\* walkRatio without the cap at 1
walkRatioUncapped(s) == s

\* walkRatio = Math.min(state.steps / state.walkGoal, 1), in units of 1/walkGoal
walkRatio(s) == Min(s, walkGoal)

\* cafeRatio = Math.min(state.cafeScore / 30, 1), in units of 1/30
cafeRatio(c) == Min(c, 30)

\* selectHealthScore with Math.floor in the place of Math.round
selectHealthScoreFloor(l) ==
    LET den == 15 * walkGoal
        num == 600 * walkRatio(l.steps) + 6 * l.dietScore * walkGoal
                  + 10 * cafeRatio(l.cafeScore) * walkGoal
    IN  num \div den

\* selectHealthScore(state): walkRatio * 40 + dietRatio * 40 + cafeRatio * 20 as
\* the fraction num / den (dietScore in tenths), and Math.round of it as
\* floor(x + 1/2)
selectHealthScore(l) ==
    LET den == 15 * walkGoal
        num == 600 * walkRatio(l.steps) + 6 * l.dietScore * walkGoal
                  + 10 * cafeRatio(l.cafeScore) * walkGoal
    IN  (2 * num + den) \div (2 * den)

\* ledger states selectHealthScore is applied to: steps, dietScore (tenths), cafeScore
HealthSteps == {0, 1, 2500, 4999, 5000, 6000, 10000}

HealthDietScores == {0, 1, 37, 80, 100}

HealthCafeScores == {0, 10, 15, 20, 30, 40}

\* the ledger with the drawn steps, dietScore and cafeScore
HealthLedger(s, d, c) ==
    [Ledger EXCEPT !.steps = s, !.dietScore = d, !.cafeScore = c]

CallHealthScore ==
    Returns("selectHealthScore",
            <<selectHealthScore(HealthLedger(callArgs[2], callArgs[3], callArgs[4]))>>)

SpecHealthScore ==
    /\ InitCalls({<<"selectHealthScore", s, d, c>> :
                     s \in HealthSteps, d \in HealthDietScores, c \in HealthCafeScores})
    /\ [][CallHealthScore]_vars

\* ------------------------------------------------------------------------
\* Claims about selectHealthScore (under SpecHealthScore, SpecGameStore)
\* ------------------------------------------------------------------------

\* 30 * walkGoal times min(steps/walkGoal,1)*40 + (dietScore/10)*40 +
\* min(cafeScore/30,1)*20, the diet score d in tenths
ScaledComposite(s, d, c) ==
    (IF s >= walkGoal THEN 1200 * walkGoal ELSE 1200 * s)
        + 12 * d * walkGoal
        + (IF c >= 30 THEN 600 * walkGoal ELSE 20 * c * walkGoal)

\* C27: selectHealthScore is the integer nearest to min(steps/walkGoal,1)*40 +
\* (dietScore/10)*40 + min(cafeScore/30,1)*20 (halves rounded up): 82 for 5000
\* steps, diet score 8.0 and cafe score 15; and it is what it is with the steps
\* lowered to the goal and the cafe score lowered to 30.
C27_HealthScoreFormula ==
    (callArgs # <<>> /\ callArgs[1] = "selectHealthScore" /\ callResult # <<>>) =>
        LET s == callArgs[2]
            d == callArgs[3]
            c == callArgs[4]
            h == callResult[1]
            v == ScaledComposite(s, d, c)
            unit == 30 * walkGoal
        IN  /\ 2 * v - unit < 2 * h * unit
            /\ 2 * h * unit <= 2 * v + unit
            /\ (s = 5000 /\ d = 80 /\ c = 15) => h = 82
            /\ s >= walkGoal => h = selectHealthScore(HealthLedger(walkGoal, d, c))
            /\ c >= 30 => h = selectHealthScore(HealthLedger(s, d, 30))
            /\ (s >= walkGoal /\ c >= 30) => h = 60 + (4 * d + 5) \div 10

\* the score of 5000 steps, diet score 8.0 and cafe score 15 has been computed
\* as 82
C27_Witness ==
    callArgs = <<"selectHealthScore", 5000, 80, 15>> /\ callResult = <<82>>

\* C28: in every ledger state the store actions lead to, selectHealthScore is
\* an integer from 0 to 100.
C28_HealthScoreInRange ==
    selectHealthScore(Ledger) \in 0..100

\* steps above the goal, the highest diet score and a cafe score of 20: the
\* score is 93
C28_Witness ==
    /\ steps > walkGoal
    /\ dietScore = 100
    /\ cafeScore = 20
    /\ selectHealthScore(Ledger) = 93

\* ------------------------------------------------------------------------
\* calcMindScore of src/services/healthService.ts (SpecMindScore)
\* ------------------------------------------------------------------------

\* MIND_FOOD_SCORES, the scores in hundredths (1.0 = 100); the keys are the
\* English names of the Korean food names of the source
MIND_FOOD_SCORES ==
    [ spinach |-> 100, kale |-> 100, broccoli |-> 100, lettuce |-> 80,
      napa_cabbage |-> 70, water_parsley |-> 80, crown_daisy |-> 80,
      blueberry |-> 90, strawberry |-> 80, raspberry |-> 80,
      walnut |-> 90, almond |-> 80, nuts |-> 70,
      salmon |-> 100, mackerel |-> 100, tuna |-> 90, fish |-> 90,
      tofu |-> 90, beans |-> 80, cheonggukjang |-> 90,
      brown_rice |-> 80, whole_wheat |-> 70,
      olive_oil |-> 100,
      chicken_breast |-> 50, chicken |-> 50 ]

\* MIND_PENALTY_FOODS, in hundredths
MIND_PENALTY_FOODS ==
    [ butter |-> -50, cheese |-> -30, fast_food |-> -100, fried_food |-> -80,
      sausage |-> -70, ramen |-> -60, snacks |-> -50 ]

\* the property names every object literal inherits from Object.prototype
ObjectPrototypeNames ==
    { "constructor", "toString", "toLocaleString", "valueOf", "hasOwnProperty",
      "isPrototypeOf", "propertyIsEnumerable", "__proto__", "__defineGetter__",
      "__defineSetter__", "__lookupGetter__", "__lookupSetter__" }

\* a JavaScript value as far as += tells values apart: a number (in
\* hundredths), or something that is not a number
NumberValue(n) == [isNumber |-> TRUE, hundredths |-> n]

NotANumberValue == [isNumber |-> FALSE, hundredths |-> 0]

\* table[food] ?? 0: the own entry, or the inherited member of Object.prototype
\* (a function or an object, which is not nullish), or 0 for undefined
Lookup(table, food) ==
    IF food \in DOMAIN table THEN NumberValue(table[food])
    ELSE IF food \in ObjectPrototypeNames THEN NotANumberValue
    ELSE NumberValue(0)

\* score += v: the sum of two numbers; with a function, an object or a string
\* on either side it is string concatenation, and the result is a string
\* that does not read as a number
PlusAssign(score, v) ==
    IF score.isNumber /\ v.isNumber
    THEN NumberValue(score.hundredths + v.hundredths)
    ELSE NotANumberValue

\* the loop of calcMindScore skipping a food that occurred earlier in the list
RECURSIVE ScoreAfterDistinct(_, _)
ScoreAfterDistinct(detectedFoods, n) ==
    IF n = 0 THEN NumberValue(0)
    ELSE IF \E j \in 1..(n - 1) : detectedFoods[j] = detectedFoods[n]
    THEN ScoreAfterDistinct(detectedFoods, n - 1)
    ELSE PlusAssign(PlusAssign(ScoreAfterDistinct(detectedFoods, n - 1),
                               Lookup(MIND_FOOD_SCORES, detectedFoods[n])),
                    Lookup(MIND_PENALTY_FOODS, detectedFoods[n]))

\* score after the first n iterations of the loop of calcMindScore
RECURSIVE ScoreAfter(_, _)
ScoreAfter(detectedFoods, n) ==
    IF n = 0 THEN NumberValue(0)
    ELSE PlusAssign(PlusAssign(ScoreAfter(detectedFoods, n - 1),
                               Lookup(MIND_FOOD_SCORES, detectedFoods[n])),
                    Lookup(MIND_PENALTY_FOODS, detectedFoods[n]))

\* NaN; a number n is <<n>>
NaN == <<>>

\* Math.round(score * 10), the score in hundredths: floor(x + 1/2)
RoundTimesTen(hundredths) == (hundredths + 5) \div 10

\* calcMindScore(detectedFoods), the result in tenths:
\* Math.max(0, Math.min(10, Math.round(score * 10) / 10)), NaN when score is
\* not a number
calcMindScore(detectedFoods) ==
    LET score == ScoreAfter(detectedFoods, Len(detectedFoods))
    IN  IF score.isNumber
        THEN <<Max(0, Min(100, RoundTimesTen(score.hundredths)))>>
        ELSE NaN

\* food names the lists are drawn from: table foods, penalty foods, a name in
\* neither table, and a name in neither table that Object.prototype has
MindFoodNames ==
    {"spinach", "lettuce", "chicken", "butter", "fast_food", "kimchi", "constructor"}

\* longest list drawn from MindFoodNames
MaxFoods == 3

\* length of the lists long enough to reach the upper clamp
LongFoods == 11

\* the lists calcMindScore is applied to: every list of up to MaxFoods names,
\* and LongFoods times spinach with at most one of them replaced by butter
FoodLists ==
    UNION {[1..n -> MindFoodNames] : n \in 0..MaxFoods}
      \cup {[i \in 1..LongFoods |-> IF i = k THEN "butter" ELSE "spinach"] :
               k \in 0..LongFoods}

CallMindScore ==
    Returns("calcMindScore", <<calcMindScore(callArgs[2])>>)

SpecMindScore ==
    /\ InitCalls({<<"calcMindScore", foods>> : foods \in FoodLists})
    /\ [][CallMindScore]_vars

\* ------------------------------------------------------------------------
\* Claims about calcMindScore (under SpecMindScore)
\* ------------------------------------------------------------------------

\* the weight of a food name, in hundredths: its entry in the positive table
\* plus its entry in the penalty table, 0 where it has none
WeightOf(food) ==
    (IF food \in DOMAIN MIND_FOOD_SCORES THEN MIND_FOOD_SCORES[food] ELSE 0)
        + (IF food \in DOMAIN MIND_PENALTY_FOODS THEN MIND_PENALTY_FOODS[food] ELSE 0)

\* how often a food occurs in a list
Occurrences(food, foods) == Cardinality({i \in 1..Len(foods) : foods[i] = food})

\* the sum over the distinct names of a list of occurrences times weight
RECURSIVE WeightedSum(_, _)
WeightedSum(names, foods) ==
    IF names = {} THEN 0
    ELSE LET f == CHOOSE x \in names : TRUE
         IN  Occurrences(f, foods) * WeightOf(f) + WeightedSum(names \ {f}, foods)

NamesOf(foods) == {foods[i] : i \in 1..Len(foods)}

\* names with an entry in neither table
UnknownNames == MindFoodNames \ (DOMAIN MIND_FOOD_SCORES \cup DOMAIN MIND_PENALTY_FOODS)

\* C29: for every list of food names calcMindScore returns a number from 0 to
\* 10, namely the sum of the foods' weights (0 for a name in neither table)
\* rounded to one decimal and clamped; a list of only unknown or only penalty
\* foods scores 0, and appending an unknown name leaves the score as it is.
C29_MindScoreClampedSum ==
    (callArgs # <<>> /\ callArgs[1] = "calcMindScore" /\ callResult # <<>>) =>
        LET foods == callArgs[2]
            score == callResult[1]
            sum == WeightedSum(NamesOf(foods), foods)
        IN  /\ score # NaN
            /\ score[1] \in 0..100
            /\ score[1] = Max(0, Min(100, (sum + 5) \div 10))
            /\ (\A f \in NamesOf(foods) : WeightOf(f) <= 0) => score = <<0>>
            /\ \A u \in UnknownNames : calcMindScore(Append(foods, u)) = score

\* the list with the elements at i and j exchanged
Swapped(foods, i, j) ==
    [k \in 1..Len(foods) |-> IF k = i THEN foods[j] ELSE IF k = j THEN foods[i]
                             ELSE foods[k]]

TimesIn(history, rec) == Cardinality({i \in 1..Len(history) : history[i] = rec})

\* timestamps non-decreasing in index order
TimestampsAscend(history) ==
    \A i, j \in 1..Len(history) : i <= j => history[i].timestamp <= history[j].timestamp

\* C31: a step that changes quizHistory is either an addQuizRecord, after
\* which the earlier records are where they were and one record follows them,
\* or a resetDailyStats, after which it is empty; and adding a record whose
\* timestamp is not below any timestamp held, to a history with ascending
\* timestamps, leaves the timestamps ascending.
C31_HistoryAppendOnly ==
    [][ /\ (quizHistory' # quizHistory) =>
              \/ /\ lastStoreOp' = "addQuizRecord"
                 /\ Len(quizHistory') = Len(quizHistory) + 1
                 /\ SubSeq(quizHistory', 1, Len(quizHistory)) = quizHistory
              \/ /\ lastStoreOp' = "resetDailyStats"
                 /\ quizHistory' = <<>>
        /\ \A rec \in QuizRecordInputs :
              ( /\ AddQuizRecord(rec)
                /\ TimestampsAscend(quizHistory)
                /\ \A i \in 1..Len(quizHistory) :
                      quizHistory[i].timestamp <= rec.timestamp )
              => ( /\ quizHistory'[Len(quizHistory')] = rec
                   /\ TimestampsAscend(quizHistory') ) ]_vars

\* three records were added in the order of their timestamps, the last one
\* a second time
C31_Witness ==
    /\ Len(quizHistory) = 3
    /\ quizHistory[1].timestamp < quizHistory[2].timestamp
    /\ quizHistory[2] = quizHistory[3]
    /\ lastStoreOp = "addQuizRecord"

\* C37: resetDailyStats sets steps, dietScore, cafeScore and cafeStreak to 0,
\* empties quizHistory and lastAnalyzedFoods, and leaves fertilizer,
\* landscapeItems, villageExp, villageLevel, residents, buildings and
\* streakDays as they were (walkGoal is written by no action at all).
C37_DailyResetFrame ==
    [][ ResetDailyStats =>
          /\ steps' = 0 /\ dietScore' = 0 /\ cafeScore' = 0 /\ cafeStreak' = 0
          /\ quizHistory' = <<>> /\ lastAnalyzedFoods' = <<>>
          /\ UNCHANGED <<fertilizer, landscapeItems, villageExp, villageLevel,
                         residents, buildings, streakDays>> ]_vars

\* a daily reset has been applied to a ledger holding fertilizer, experience
\* and a streak of days
C37_Witness ==
    /\ lastStoreOp = "resetDailyStats"
    /\ fertilizer > 0
    /\ villageExp > 0
    /\ streakDays > 0
    /\ steps = 0

\* C38: no two buildings of the ledger have the same id; unlockBuilding with
\* an id already present changes nothing in the ledger, and with a new id
\* it appends that building and changes nothing else.
C38_BuildingsUnique ==
    /\ [](\A i, j \in 1..Len(buildings) :
              buildings[i].id = buildings[j].id => i = j)
    /\ [][ \A b \in BuildingInputs :
             UnlockBuilding(b) =>
               IF \E i \in 1..Len(buildings) : buildings[i].id = b.id
               THEN UNCHANGED <<storeVars, ledgerVars>>
               ELSE /\ buildings' = Append(buildings, b)
                    /\ UNCHANGED <<quizHistory, dietScore, lastAnalyzedFoods,
                                   villageLevel, villageExp, residents, fertilizer,
                                   cafeScore, cafeStreak, streakDays, ledgerVars>> ]_vars

\* two buildings are held, and the latest unlockBuilding was refused because
\* its id was present
C38_Witness ==
    /\ Len(buildings) = 2
    /\ lastStoreOp = "unlockBuilding"
    /\ lastClamped

\* ------------------------------------------------------------------------
\* Further claims about the walk tab and PedometerService (under SpecTabsWalk)
\* ------------------------------------------------------------------------

\* C32: whatever the two sensor calls of initialize do (grant, deny, report
\* no pedometer, throw), initialize returns a status; the status is not
\* available and has an error when permission is denied, when there is no
\* pedometer and when a call throws; the error of a status is null exactly
\* when it is available; and there is no tracking, no subscription and no
\* session unless the status held is available.
C32_UnavailableNeverThrowsOrStarts ==
    /\ \A p \in PermissionOutcomes, a \in AvailabilityOutcomes :
          LET st == initialize(p, a)
          IN  /\ DOMAIN st = {"isAvailable", "hasPermission", "error"}
              /\ (st.error = "null") <=> st.isAvailable
              /\ (p # "granted" \/ a # "available") =>
                    (~st.isAvailable /\ st.error # "null")
    /\ \A st \in pedometerStatus :
          /\ st \in InitializeResults
          /\ (st.error = "null") <=> st.isAvailable
    /\ (isTracking \/ subscription \/ sessionCount > 0) =>
          (\E st \in pedometerStatus : st.isAvailable)
    /\ startRefused =>
          (~isTracking /\ ~subscription /\ sessionCount = 0)

\* initialize returned the status of a thrown sensor call, and the start
\* button was pressed and did nothing
C32_Witness ==
    /\ pedometerStatus = {StatusThrown}
    /\ startRefused
    /\ ~isTracking
    /\ sessionCount = 0

\* ------------------------------------------------------------------------
\* The screens' remote calls and their fallbacks: DietScreen (unnamed/part_007),
\* src/screens/CafeScreen.tsx and handleStartWalk of WalkScreen (SpecRemoteCalls)
\* ------------------------------------------------------------------------

\* everything modelled before these screens
beforeRemote == <<serviceVars, bankVars, walkTabVars, ledgerVars, walkTabHist,
                  bankHist, screenVars, screenHist, storeVars, storeHist, levelVars,
                  cafeVars, cafeHist, quizCardHist, startHist, callVars>>

\* MOCK_RESULT of DietScreen, the score in tenths
MOCK_RESULT ==
    [ mindScore |-> 75,
      detectedFoods |-> <<"spinach", "salmon", "walnut", "brown_rice", "broccoli">>,
      fertilizer |-> 3 ]

\* analyzeFood(imageBase64) resolved, the server having answered mindScore and
\* detectedItems
analyzeFood(mindScore, detectedItems) ==
    [ mindScore |-> mindScore, detectedFoods |-> detectedItems,
      fertilizer |-> calcFertilizer(mindScore) ]

\* answers of the diet server
ServerAnalyses == {[mindScore |-> 62, detectedItems |-> <<"tofu", "kale">>]}

\* the capture button (shown in camera): handleCapture, the photo taken or not
DsHandleCapture(taken) ==
    /\ dsPhase = "camera"
    /\ dsPhase' = IF taken THEN "preview" ELSE dsPhase
    /\ UNCHANGED <<dsResult, dsPending, beforeRemote, cafeScreenVars, dietTabVars,
                   dietTabHist>>

\* the analyze button (shown in preview): handleAnalyze up to its await
DsHandleAnalyze ==
    /\ dsPhase = "preview"
    /\ dsPhase' = "analyzing"
    /\ dsPending' = TRUE
    /\ UNCHANGED <<dsResult, beforeRemote, cafeScreenVars, dietTabVars, dietTabHist>>

\* setResult in the catch branch of handleAnalyze, left out
AnalysisOrNothing(ok, answer) ==
    IF ok THEN <<analyzeFood(answer.mindScore, answer.detectedItems)>> ELSE <<>>

\* the result handleAnalyze sets: analyzeFood's if it resolved, MOCK_RESULT if
\* it threw
AnalysisOrMock(ok, answer) ==
    IF ok THEN <<analyzeFood(answer.mindScore, answer.detectedItems)>>
    ELSE <<MOCK_RESULT>>

\* handleAnalyze after analyzeFood resolved (ok) or threw
DsAnalyzeSettles(ok, answer) ==
    /\ dsPending
    /\ dsPending' = FALSE
    /\ dsResult' = AnalysisOrMock(ok, answer)
    /\ dsPhase' = "result"
    /\ UNCHANGED <<beforeRemote, cafeScreenVars, dietTabVars, dietTabHist>>

\* the retake buttons (shown in preview and result): handleRetake
DsHandleRetake ==
    /\ dsPhase \in {"preview", "result"}
    /\ dsResult' = <<>>
    /\ dsPhase' = "camera"
    /\ UNCHANGED <<dsPending, beforeRemote, cafeScreenVars, dietTabVars, dietTabHist>>

\* TOTAL_ROUNDS of CafeScreen
CS_TOTAL_ROUNDS == 3

\* MOCK_SESSIONS of CafeScreen: sessionId and correctMenuId
MOCK_SESSIONS ==
    << [sessionId |-> "mock-1", correctMenuId |-> "americano"],
       [sessionId |-> "mock-2", correctMenuId |-> "latte"],
       [sessionId |-> "mock-3", correctMenuId |-> "tea"],
       [sessionId |-> "mock-4", correctMenuId |-> "juice"] >>

\* the menus of the sessions the barista server answers with
ServerMenus == {<<>>, <<"latte", "tea">>}

\* the menu cards pressed
CsMenuIds == {"americano", "latte"}

\* games started on the cafe screen in one run
MaxCafeGames == 1

\* the session of loadNextRound(roundIndex): the server's, converted, if
\* getBaristaSession resolved; nothing if it threw
SessionOrNothing(ok, menu, roundIndex) ==
    IF ok
    THEN <<[sessionId |-> "api",
            correctMenuId |-> IF menu = <<>> THEN "americano" ELSE menu[1]]>>
    ELSE <<>>

\* the session of loadNextRound(roundIndex): the server's, converted
\* (apiSession.menu[0]?.id ?? 'americano'), if getBaristaSession resolved;
\* MOCK_SESSIONS[roundIndex % MOCK_SESSIONS.length] if it threw
SessionOrMock(ok, menu, roundIndex) ==
    IF ok
    THEN <<[sessionId |-> "api",
            correctMenuId |-> IF menu = <<>> THEN "americano" ELSE menu[1]]>>
    ELSE <<MOCK_SESSIONS[(roundIndex % Len(MOCK_SESSIONS)) + 1]>>

\* the start buttons (shown in idle and complete): handleStart up to the await
\* inside loadNextRound(0)
CsHandleStart ==
    /\ csPhase \in {"idle", "complete"}
    /\ csGames < MaxCafeGames
    /\ csGames' = csGames + 1
    /\ csRound' = 0
    /\ csPhase' = "customer"
    /\ csLoading' = Append(csLoading, 0)
    /\ UNCHANGED <<csSession, csSelectedMenuId, csTimers, csSpeech, beforeRemote,
                   dietScreenVars, dietTabVars, dietTabHist>>

\* loadNextRound after getBaristaSession resolved (ok) or threw
CsSessionSettles(ok, menu) ==
    /\ csLoading # <<>>
    /\ csLoading' = Tail(csLoading)
    /\ csSession' = SessionOrMock(ok, menu, Head(csLoading))
    /\ csSelectedMenuId' = <<>>
    /\ csRound' = Head(csLoading)
    /\ csPhase' = "customer"
    /\ UNCHANGED <<csTimers, csSpeech, csGames, beforeRemote, dietScreenVars,
                   dietTabVars, dietTabHist>>

\* the listen button (shown in customer with a session): handleListen
CsHandleListen ==
    /\ csPhase = "customer"
    /\ csSession # <<>>
    /\ csPhase' = "ordering"
    /\ csSpeech' = "order"
    /\ UNCHANGED <<csRound, csSession, csSelectedMenuId, csLoading, csTimers, csGames,
                   beforeRemote, dietScreenVars, dietTabVars, dietTabHist>>

\* onDone (after 800 ms) or onError of the order speech: showDistractorDialog(),
\* whose currentSession is the one handleListen found present
CsOrderSpoken ==
    /\ csSpeech = "order"
    /\ csPhase' = "distractor"
    /\ csSpeech' = "distractor"
    /\ UNCHANGED <<csRound, csSession, csSelectedMenuId, csLoading, csTimers, csGames,
                   beforeRemote, dietScreenVars, dietTabVars, dietTabHist>>

\* onDone (after 500 ms) or onError of the distractor speech
CsDistractorSpoken ==
    /\ csSpeech = "distractor"
    /\ csSpeech' = "none"
    /\ csPhase' = "selecting"
    /\ UNCHANGED <<csRound, csSession, csSelectedMenuId, csLoading, csTimers, csGames,
                   beforeRemote, dietScreenVars, dietTabVars, dietTabHist>>

\* a menu card (shown in selecting and feedback): handleSelectMenu(menuId)
CsHandleSelectMenu(menuId) ==
    /\ csPhase \in {"selecting", "feedback"}
    /\ csSession # <<>>
    /\ csSelectedMenuId = <<>>
    /\ csSelectedMenuId' = <<menuId>>
    /\ csPhase' = "feedback"
    /\ csTimers' = Append(csTimers, csRound)
    /\ UNCHANGED <<csRound, csSession, csLoading, csSpeech, csGames, beforeRemote,
                   dietScreenVars, dietTabVars, dietTabHist>>

\* the 2.5 s timeout of handleSelectMenu: complete after the last round, else
\* loadNextRound(round + 1) up to its await
CsFeedbackTimeout ==
    /\ csTimers # <<>>
    /\ csTimers' = Tail(csTimers)
    /\ IF Head(csTimers) + 1 >= CS_TOTAL_ROUNDS
       THEN /\ csPhase' = "complete"
            /\ UNCHANGED csLoading
       ELSE /\ csLoading' = Append(csLoading, Head(csTimers) + 1)
            /\ UNCHANGED csPhase
    /\ UNCHANGED <<csRound, csSession, csSelectedMenuId, csSpeech, csGames,
                   beforeRemote, dietScreenVars, dietTabVars, dietTabHist>>

NextRemoteCalls ==
    \/ PressStart
    \/ \E i \in 1..MaxWalkSessions : StartWalking(i)
    \/ \E i \in 1..MaxWalkSessions, ok \in BOOLEAN, a \in RemoteAnswers :
          QuizListLoaded(i, ok, a)
    \/ \E taken \in BOOLEAN : DsHandleCapture(taken)
    \/ DsHandleAnalyze
    \/ \E ok \in BOOLEAN, answer \in ServerAnalyses : DsAnalyzeSettles(ok, answer)
    \/ DsHandleRetake
    \/ CsHandleStart
    \/ \E ok \in BOOLEAN, menu \in ServerMenus : CsSessionSettles(ok, menu)
    \/ CsHandleListen
    \/ CsOrderSpoken
    \/ CsDistractorSpoken
    \/ \E menuId \in CsMenuIds : CsHandleSelectMenu(menuId)
    \/ CsFeedbackTimeout

SpecRemoteCalls == Init /\ [][NextRemoteCalls]_vars

\* a start of the walk screen has all its remote calls settled
WalkCallsSettled == wsSession > 0 /\ starting = <<>>

\* C33: every remote call of a session step leads, settled well or failed alike,
\* to the same next phase with data present: the walk starts (walking) once
\* startWalkSession settles and the quiz list is non-empty once getWalkQuiz
\* settles; the diet analysis ends in result with a non-null analysis; a cafe
\* round load ends in customer with a non-null session.  A phase that waits
\* (analyzing; customer without a session; a start not yet walking) has its
\* call still in flight, so none waits on a call that has failed.
C33_FailedCallsFallBack ==
    /\ [](dsPhase = "analyzing" => dsPending)
    /\ []((csPhase = "customer" /\ csSession = <<>>) => csLoading # <<>>)
    /\ [](WalkCallsSettled => quizList # <<>>)
    /\ [][ /\ (dsPending /\ ~dsPending') => (dsPhase' = "result" /\ dsResult' # <<>>)
           /\ (Len(csLoading') < Len(csLoading))
                 => (csPhase' = "customer" /\ csSession' # <<>>)
           /\ (\E i \in 1..Len(starting) :
                  /\ Len(starting') = Len(starting)
                  /\ starting[i].stage = "session"
                  /\ starting'[i].stage = "quiz")
                 => phase' = "walking"
           /\ (Len(starting') < Len(starting))
                 => (phase' = "walking" /\ quizList' # <<>>) ]_vars

\* all three screens went on after failed calls: the walk with the local quiz
\* catalogue, the diet screen with MOCK_RESULT, the cafe with a mock session
C33_Witness ==
    /\ WalkCallsSettled /\ phase = "walking" /\ quizList = MOCK_QUIZZES
    /\ dsPhase = "result" /\ dsResult = <<MOCK_RESULT>>
    /\ csPhase = "customer" /\ csSession = <<MOCK_SESSIONS[2]>>

\* ------------------------------------------------------------------------
\* The diet tab: app/(tabs)/diet.tsx (SpecTabsDiet)
\* ------------------------------------------------------------------------

\* allFoods of mockAnalyzeImage
allFoods ==
    << <<"spinach", "salmon", "tofu", "brown_rice">>,
       <<"broccoli", "mackerel", "walnut", "tofu">>,
       <<"kale", "chicken_breast", "blueberry", "almond">>,
       <<"lettuce", "tuna", "cheonggukjang", "brown_rice">>,
       <<"spinach", "walnut", "strawberry", "olive_oil">>,
       <<"napa_cabbage", "salmon", "nuts">>,
       <<"ramen", "snacks">> >>

\* what takePictureAsync does: a photo, no photo, or a throw
CaptureOutcomes == {"photo", "null", "throws"}

\* takePicture calls that pass the guard in one run
MaxCaptures == 2

\* everything outside the diet tab and the store
outsideDiet == <<serviceVars, bankVars, walkTabVars, walkTabHist, bankHist, screenVars,
                 screenHist, levelVars, cafeVars, cafeHist, quizCardHist, startHist,
                 dietScreenVars, cafeScreenVars, callVars>>

\* the guard of takePicture, without the phase
CaptureAllowedAnyPhase(p) == p # "result"

\* the guard of takePicture: the camera is mounted (it is in every phase but
\* result) and the phase is camera
CaptureAllowed(p) == p # "result" /\ p = "camera"

\* the phase takePicture's catch branch sets, left at capturing
PhaseAfterFailureStuck == "capturing"

\* the phase takePicture's catch branch sets
PhaseAfterFailure == "camera"

\* takePicture() up to await takePictureAsync(); a call the guard refuses
\* returns at once
TakePicture ==
    IF CaptureAllowed(dtPhase)
    THEN /\ dtCaptures < MaxCaptures
         /\ dtCaptures' = dtCaptures + 1
         /\ dtPhase' = "capturing"
         /\ dtPending' = "capture"
         /\ dtLast' = "takePicture"
         /\ UNCHANGED <<dtResult, dtAnalyses, dtRefused, ledgerVars, storeVars, storeHist,
                        outsideDiet>>
    ELSE /\ dtRefused' = <<dtPhase>>
         /\ dtLast' = "refused"
         /\ UNCHANGED <<dtPhase, dtResult, dtPending, dtAnalyses, dtCaptures,
                        ledgerVars, storeVars, storeHist, outsideDiet>>

\* takePicture after takePictureAsync settled: on to the analysis with a photo,
\* else the catch branch
CaptureSettles(outcome) ==
    /\ dtPending = "capture"
    /\ IF outcome = "photo"
       THEN /\ dtPhase' = "analyzing"
            /\ dtPending' = "analysis"
            /\ dtLast' = "captured"
       ELSE /\ dtPhase' = PhaseAfterFailure
            /\ dtPending' = "none"
            /\ dtLast' = "captureFailed"
    /\ UNCHANGED <<dtResult, dtAnalyses, dtCaptures, dtRefused, ledgerVars, storeVars, storeHist,
                   outsideDiet>>

\* takePicture after mockAnalyzeImage resolved with allFoods[r]: setDietScore,
\* addFertilizer, setResult, setPhase('result')
AnalysisSettles(r) ==
    LET detectedFoods == allFoods[r]
        mindScore == calcMindScore(detectedFoods)[1]
        fertilizerGain == calcFertilizer(mindScore)
    IN  /\ dtPending = "analysis"
        /\ SetState([Ledger EXCEPT !.dietScore = mindScore,
                                   !.lastAnalyzedFoods = detectedFoods,
                                   !.fertilizer = @ + fertilizerGain])
        /\ storeOps' = storeOps + 2
        /\ lastStoreOp' = "addFertilizer"
        /\ lastClamped' = FALSE
        /\ dtResult' = <<[mindScore |-> mindScore, detectedFoods |-> detectedFoods,
                          fertilizer |-> fertilizerGain]>>
        /\ dtPhase' = "result"
        /\ dtPending' = "none"
        /\ dtAnalyses' = dtAnalyses + 1
        /\ dtLast' = "analysed"
        /\ UNCHANGED <<dtCaptures, dtRefused, outsideDiet>>

\* the button of the result view: retake
Retake ==
    /\ dtPhase = "result"
    /\ dtResult # <<>>
    /\ dtResult' = <<>>
    /\ dtPhase' = "camera"
    /\ dtLast' = "retake"
    /\ UNCHANGED <<dtPending, dtAnalyses, dtCaptures, dtRefused, ledgerVars, storeVars, storeHist,
                   outsideDiet>>

NextTabsDiet ==
    \/ TakePicture
    \/ \E outcome \in CaptureOutcomes : CaptureSettles(outcome)
    \/ \E r \in 1..Len(allFoods) : AnalysisSettles(r)
    \/ Retake

SpecTabsDiet == Init /\ [][NextTabsDiet]_vars

\* the ledger fields the diet tab writes
DietLedger == <<dietScore, lastAnalyzedFoods, fertilizer>>

\* C34: the ledger's dietScore, lastAnalyzedFoods and fertilizer change only in
\* the step that ends a capture-and-analysis, which sets the score of the foods
\* found and adds calcFertilizer(score) once; each analysis belongs to one
\* accepted takePicture, accepted only in phase camera; a takePicture request in
\* another phase starts nothing and leaves phase, calls in flight and ledger as
\* they were.
C34_AnalysisAppliedOnce ==
    /\ [](dtAnalyses <= dtCaptures)
    /\ [](dtRefused # <<>> => dtRefused[1] \in {"capturing", "analyzing", "result"})
    /\ [][ /\ (DietLedger' # DietLedger \/ dtAnalyses' # dtAnalyses)
                 => /\ dtPending = "analysis" /\ dtPending' = "none"
                    /\ dtAnalyses' = dtAnalyses + 1
                    /\ dietScore' = calcMindScore(lastAnalyzedFoods')[1]
                    /\ fertilizer' = fertilizer + calcFertilizer(dietScore')
           /\ (dtCaptures' # dtCaptures)
                 => (dtPhase = "camera" /\ dtCaptures' = dtCaptures + 1)
           /\ (dtLast' = "refused" /\ (dtLast # "refused" \/ dtRefused' # dtRefused))
                 => /\ dtPhase # "camera"
                    /\ UNCHANGED <<dtPhase, dtResult, dtPending, dtAnalyses, dtCaptures,
                                   storeVars, ledgerVars>> ]_vars

\* two analyses were applied, one unit of fertilizer each, and a takePicture
\* request made during an analysis was refused
C34_Witness ==
    /\ dtAnalyses = 2
    /\ fertilizer = 2
    /\ dietScore = 37
    /\ dtRefused = <<"analyzing">>

\* C36: when takePictureAsync throws or returns no photo, the phase returns to
\* camera, the ledger's dietScore, lastAnalyzedFoods and fertilizer stay as they
\* were, and takePicture's guard accepts the next capture.
C36_FailedCaptureRecovers ==
    [][ (dtPending = "capture" /\ dtPending' = "none")
           => /\ dtPhase' = "camera"
              /\ UNCHANGED <<DietLedger, dtResult, dtAnalyses>>
              /\ CaptureAllowed(dtPhase') ]_vars

\* a capture failed and the next capture went through to its result
C36_Witness ==
    /\ dtCaptures = dtAnalyses + 1
    /\ dtAnalyses > 0
    /\ dtPhase = "result"
    /\ dtResult # <<>>
    /\ dietScore = dtResult[1].mindScore

\* ------------------------------------------------------------------------
\* The walk screen on the readings of a session started late in the day
\* (SpecSessionSteps)
\* ------------------------------------------------------------------------

\* cumulative readings of the sensor around a start at 12000
ScenarioReadings == {12000, 12500, 16999, 17000}

NextSessionSteps ==
    \/ \E s \in ScenarioReadings : HookTick(s)
    \/ PressStart
    \/ \E i \in 1..MaxWalkSessions : StartWalking(i)
    \/ \E i \in 1..MaxWalkSessions, ok \in BOOLEAN, a \in RemoteAnswers :
          QuizListLoaded(i, ok, a)
    \/ \E c \in Choices : HandleSelectChoice(c)
    \/ ResultTimeout
    \/ EndWalk
    \/ \E i \in 1..MaxInFlight, ok \in BOOLEAN : WalkCompleteSettles(i, ok)
    \/ ReturnHome

SpecSessionSteps == Init /\ [][NextSessionSteps]_vars

\* the screen shows a session: the phases in which the step effect runs
SessionShown == phase \in {"walking", "quiz", "result"}

\* the reading less the snapshot, or zero if that is negative
StepsSince(reading, snapshot) ==
    IF reading - snapshot > 0 THEN reading - snapshot ELSE 0

\* C35: while a session is shown its step count is max(0, reading - start
\* snapshot) and never negative, and a tick, or the start itself, completes the
\* session exactly when that count has reached the goal; with the snapshot 12000 and the goal 5000 a
\* tick below 17000 leaves the session uncompleted and the tick at 17000
\* completes it.
C35_SessionStepsFromSnapshot ==
    /\ [](sessionSteps >= 0)
    /\ [](SessionShown => sessionSteps = StepsSince(hookSteps, startSteps))
    /\ [][ (hookSteps' # hookSteps /\ SessionShown)
              => /\ sessionSteps' = StepsSince(hookSteps', startSteps)
                 /\ (phase' = "complete") <=> (sessionSteps' >= STEP_GOAL)
                 /\ (completing' # completing) <=> (sessionSteps' >= STEP_GOAL)
                 /\ startSteps = 12000
                       => (phase' = "complete") <=> (hookSteps' = 17000) ]_vars
    /\ [][ (wsSession' # wsSession)
              => /\ sessionSteps' = StepsSince(hookSteps', startSteps')
                 /\ (phase' = "complete") <=> (sessionSteps' >= STEP_GOAL) ]_vars

=============================================================================
